---- MODULE Spec2Model ----
(***************************************************************************)
(* Posture-analyzer: the /analyze request handler (app/api/routes.py), the *)
(* upload helpers (app/utils/file_utils.py) and the landmark aggregator    *)
(* and reliability gate (app/services/pose_estimator.py), the geometry     *)
(* kernel (app/utils/geometry.py), the metrics engine                      *)
(* (app/services/angle_calculator.py) and the frame loop of process_video. *)
(*                                                                         *)
(* Numbers that are floats in the program are exact rationals [n, d] in    *)
(* lowest terms here; an Optional value is <<>> (None) or <<v>>.  Where    *)
(* the rounding of a float operation decides an outcome of the geometry    *)
(* kernel, the operation is modelled with that rounding (see FloatMul,     *)
(* FloatAdd360 and the quotient of calculate_angle).                       *)
(***************************************************************************)
EXTENDS Integers, Sequences, FiniteSets, TLC

VARIABLES
    \* ---- the process ----
    MEDIAPIPE_AVAILABLE,   \* set when pose_estimator.py is imported
    \* ---- analyze_posture (one request) ----
    pc,             \* position in the handler
    videos,         \* the uploaded files: sequence of [name, ext, size]
    video_angle,    \* the form field: a string, as a sequence of atoms
    video_angles,   \* the stripped tokens (routes.py:64)
    services,       \* TRUE once PoseEstimator/AngleCalculator/ThumbnailGenerator exist
    idx,            \* 1-based position of the loop over zip(videos, video_angles)
    analyses,       \* list of VideoAnalysisResponse built so far
    temp_files,     \* list of saved upload paths
    disk,           \* set of paths that exist on disk
    cur,            \* locals of _process_single_video for the current video
    exc,            \* <<>> or <<[kind, status]>>: the exception in flight
    status,         \* HTTP status of the finished request, 0 while running
    response,       \* <<>> or <<[analyses]>>: the returned body
    fault,          \* history: the kind of the first failure of the request
    log,            \* history: the stages executed, in order
    \* ---- aggregator / gate applied to drawn inputs ----
    agg_pc,
    landmarks_list, \* the frames handed to get_average_landmarks
    avg_landmarks,  \* <<>> or <<its result>>
    gate_input,     \* <<>> or <<the Landmarks handed to validate_pose_detection>>
    gate_result,    \* <<>> or <<its result>>
    \* ---- the geometry kernel applied to drawn points ----
    geo_pc,
    geo_points,            \* the four Optional[LandmarkPoint] arguments
    fp_ulp,                \* how an inexact float result rounds (the quotient of
                           \* calculate_angle, the mean of the aggregator): -1, 0, 1
    geo_angle,             \* outcome of calculate_angle on geo_points[1..3]
    geo_vector,            \* outcome of calculate_alignment_vector on geo_points[1..2]
    geo_ratio,             \* outcome of calculate_width_ratio on geo_points[1..4]
    \* ---- the metrics engine applied to a drawn Skeleton ----
    eng_pc,
    eng_landmarks,         \* the Landmarks handed to the AngleCalculator
    eng_accepted,          \* <<>> or <<validate_pose_detection(eng_landmarks)>>
    eng_joint_angles,      \* outcome of calculate_joint_angles(eng_landmarks)
    eng_alignment_vectors, \* outcome of calculate_alignment_vectors(eng_landmarks)
    eng_symmetry,          \* outcome of calculate_symmetry(eng_landmarks)
    \* ---- the frame loop of process_video on one opened video ----
    dec_pc,
    dec_video,             \* [nframes, det]: what the decoder and the detector deliver
    dec_frame_count,       \* local frame_count
    dec_landmarks_list,    \* local landmarks_list
    dec_processed_frames,  \* local processed_frames
    dec_detections,        \* history: calls of process_frame
    dec_released           \* TRUE once cap.release() ran

vars == <<MEDIAPIPE_AVAILABLE, pc, videos, video_angle, video_angles, services, idx, analyses,
          temp_files, disk, cur, exc, status, response, fault, log,
          agg_pc, landmarks_list, avg_landmarks, gate_input, gate_result,
          geo_pc, geo_points, fp_ulp, geo_angle, geo_vector, geo_ratio,
          eng_pc, eng_landmarks, eng_accepted, eng_joint_angles,
          eng_alignment_vectors, eng_symmetry,
          dec_pc, dec_video, dec_frame_count, dec_landmarks_list,
          dec_processed_frames, dec_detections, dec_released>>

reqVars == <<pc, videos, video_angle, video_angles, services, idx, analyses,
             temp_files, disk, cur, exc, status, response, fault, log>>

aggVars == <<agg_pc, landmarks_list, avg_landmarks, gate_input, gate_result>>

geoVars == <<geo_pc, fp_ulp, geo_points, geo_angle, geo_vector, geo_ratio>>

engVars == <<eng_pc, eng_landmarks, eng_accepted, eng_joint_angles,
             eng_alignment_vectors, eng_symmetry>>

decVars == <<dec_pc, dec_video, dec_frame_count, dec_landmarks_list,
             dec_processed_frames, dec_detections, dec_released>>

\* what the request handler, and what the aggregator, leave alone
notReqVars == <<MEDIAPIPE_AVAILABLE, aggVars, geoVars, engVars, decVars>>
notAggVars == <<MEDIAPIPE_AVAILABLE, reqVars, geoVars, engVars, decVars>>

-----------------------------------------------------------------------------
(* Bounds of the model *)

MaxVideos == 5
MaxTokens == 5
MaxFrames == 2
LongVideo == 1600

-----------------------------------------------------------------------------
(* Optional values and exact arithmetic *)

None == <<>>
Some(v) == <<v>>
IsNone(o) == o = <<>>
IsSome(o) == o # <<>>
Val(o) == o[1]

Abs(a) == IF a < 0 THEN -a ELSE a

RECURSIVE GCD(_, _)
GCD(a, b) == IF b = 0 THEN a ELSE GCD(b, a % b)

\* the rational n/d (d > 0) in lowest terms
Rat(n, d) ==
    LET g == GCD(Abs(n), d)
    IN  [n |-> n \div g, d |-> d \div g]

RAdd(a, b) == Rat(a.n * b.d + b.n * a.d, a.d * b.d)
RDivInt(a, k) == Rat(a.n, a.d * k)
RGt(a, b) == a.n * b.d > b.n * a.d
RZero == Rat(0, 1)
Tenths(k) == Rat(k, 10)

\* sum(values) of a Python list of floats
RECURSIVE sum(_)
sum(values) ==
    IF values = <<>> THEN RZero
    ELSE RAdd(sum(SubSeq(values, 1, Len(values) - 1)), values[Len(values)])

-----------------------------------------------------------------------------
(* Landmarks (app/models/response.py) *)

Slots ==
    {"nose", "left_eye", "right_eye", "left_ear", "right_ear",
     "left_shoulder", "right_shoulder", "left_elbow", "right_elbow",
     "left_wrist", "right_wrist", "left_hip", "right_hip",
     "left_knee", "right_knee", "left_ankle", "right_ankle"}

LandmarkPoint(x, y, confidence) == [x |-> x, y |-> y, confidence |-> confidence]

\* Landmarks(): every slot defaults to None
EmptyLandmarks == [s \in Slots |-> None]

\* the acceptance threshold written as the literal 0.5 in pose_estimator.py
ConfidenceThreshold == Rat(1, 2)

\* the threshold test with >= in place of >
PassesThreshold_Inclusive(lm) ==
    /\ IsSome(lm)
    /\ IsSome(Val(lm).confidence)
    /\ Val(Val(lm).confidence) # Rat(0, 1)
    /\ ~RGt(Rat(1, 2), Val(Val(lm).confidence))

\* `lm and lm.confidence and lm.confidence > 0.5`: None is falsy, a model
\* instance is truthy, a confidence of None or 0.0 is falsy
PassesThreshold(lm) ==
    /\ IsSome(lm)
    /\ IsSome(Val(lm).confidence)
    /\ Val(Val(lm).confidence) # RZero
    /\ RGt(Val(Val(lm).confidence), ConfidenceThreshold)

\* the inner loop of get_average_landmarks for one slot: the x, y and
\* confidence lists after the first k frames
RECURSIVE CollectValues(_, _, _)
CollectValues(frames, landmark_name, k) ==
    IF k = 0 THEN [x_values |-> <<>>, y_values |-> <<>>, confidence_values |-> <<>>]
    ELSE LET acc == CollectValues(frames, landmark_name, k - 1)
             landmark == frames[k][landmark_name]
         IN  IF PassesThreshold(landmark)
             THEN [x_values |-> Append(acc.x_values, Val(landmark).x),
                   y_values |-> Append(acc.y_values, Val(landmark).y),
                   confidence_values |->
                       Append(acc.confidence_values, Val(Val(landmark).confidence))]
             ELSE acc

\* A float with a short mantissa (a power of two, a small multiple of one,
\* a float32 widened to a double): sums of a few of them are exact doubles.
\* The decimal fractions of the model (0.7, 0.42) stand for doubles with a
\* full mantissa.
ShortMantissa(q) == \E k \in 0..10 : q.d = 2^k

\* one ulp of a mean, at the scale of the model
MeanUlp == Rat(1, 10000)

\* sum(values) / len(values) on doubles.  sum adds from the left and rounds
\* after every addition, the quotient rounds once more.  0 + v, v + v, v / 1,
\* 2v / 2 and sums of short floats are exact; otherwise the result is the
\* mean or a neighbour of it (sum([0.7] * 3) / 3 == 0.6999999999999998,
\* sum([0.8] * 3) / 3 == 0.8000000000000002, sum([0.9] * 3) / 3 == 0.9).
FloatMean(values, ulp) ==
    LET mean == RDivInt(sum(values), Len(values))
        exact == \/ Len(values) = 1
                 \/ Len(values) = 2 /\ values[1] = values[2]
                 \/ \A k \in 1..Len(values) : ShortMantissa(values[k])
    IN  IF exact THEN mean ELSE RAdd(mean, Rat(ulp * MeanUlp.n, MeanUlp.d))

get_average_landmarks(frames, ulp) ==
    IF frames = <<>> THEN EmptyLandmarks
    ELSE [landmark_name \in Slots |->
            LET c == CollectValues(frames, landmark_name, Len(frames))
            IN  IF c.x_values # <<>> /\ c.y_values # <<>>
                THEN Some(LandmarkPoint(
                        FloatMean(c.x_values, ulp),
                        FloatMean(c.y_values, ulp),
                        Some(FloatMean(c.confidence_values, ulp))))
                ELSE None]

\* the gate with a threshold of two torso points
validate_pose_detection_AtLeastTwo(landmarks) ==
    Cardinality({s \in {"left_shoulder", "right_shoulder", "left_hip", "right_hip"} :
                    PassesThreshold(landmarks[s])}) >= 2

\* "Require at least 3 out of 4 essential landmarks"
MinEssential == 3

validate_pose_detection(landmarks) ==
    LET essential_landmarks ==
            <<landmarks["left_shoulder"], landmarks["right_shoulder"],
              landmarks["left_hip"], landmarks["right_hip"]>>
        detected_count ==
            Cardinality({k \in 1..Len(essential_landmarks) :
                            PassesThreshold(essential_landmarks[k])})
    IN  detected_count >= MinEssential

-----------------------------------------------------------------------------
(* Symmetry (app/utils/geometry.py, app/services/angle_calculator.py) *)

RAbsDiff(a, b) ==
    LET n == a.n * b.d - b.n * a.d
    IN  Rat(Abs(n), a.d * b.d)

RDiv(a, b) == Rat(a.n * b.d, a.d * b.n)
ROne == Rat(1, 1)

\* `not all([...])`: some point is None (a LandmarkPoint instance is truthy)
AllPresent(points) == \A k \in 1..Len(points) : IsSome(points[k])

\* the difference taken on the x-coordinates
geometry_calculate_symmetry_OnX(left_point, right_point) ==
    IF IsNone(left_point) \/ IsNone(right_point) THEN None
    ELSE Some(RAbsDiff(Val(left_point).x, Val(right_point).x))

geometry_calculate_symmetry(left_point, right_point) ==
    IF IsNone(left_point) \/ IsNone(right_point) THEN None
    ELSE Some(RAbsDiff(Val(left_point).y, Val(right_point).y))

\* one ulp of a width ratio, at the scale of the model
RatioUlp == Rat(1, 10000)

\* a / b on doubles, b # 0: exact when the quotient has a short mantissa
\* (1.0, 0.5, 3.0), otherwise a neighbour of the quotient
\* (0.30000000000000004 / 0.09999999999999998 == 3.0000000000000004)
FloatDiv(a, b, ulp) ==
    LET q == RDiv(a, b)
    IN  IF ShortMantissa(q) THEN q ELSE RAdd(q, Rat(ulp * RatioUlp.n, RatioUlp.d))

\* the zero check applied to the measured width instead of the reference
\* width: the division is then attempted on a zero-width reference pair
calculate_width_ratio_GuardsNumerator(left_point, right_point, reference_left, reference_right, ulp) ==
    IF ~AllPresent(<<left_point, right_point, reference_left, reference_right>>)
    THEN None
    ELSE LET width1 == RAbsDiff(Val(left_point).x, Val(right_point).x)
             width2 == RAbsDiff(Val(reference_left).x, Val(reference_right).x)
         IN  IF width1 = RZero THEN None
             ELSE IF width2 = RZero THEN <<"raise", "ZeroDivisionError">>
             ELSE Some(FloatDiv(width1, width2, ulp))

calculate_width_ratio(left_point, right_point, reference_left, reference_right, ulp) ==
    IF ~AllPresent(<<left_point, right_point, reference_left, reference_right>>)
    THEN None
    ELSE LET width1 == RAbsDiff(Val(left_point).x, Val(right_point).x)
             width2 == RAbsDiff(Val(reference_left).x, Val(reference_right).x)
         IN  IF width2 = RZero THEN None ELSE Some(FloatDiv(width1, width2, ulp))

\* a shoulder height difference taken only of shoulders the gate counts
_calculate_shoulder_height_diff_ConfidentOnly(landmarks) ==
    IF ~(PassesThreshold(landmarks["left_shoulder"])
         /\ PassesThreshold(landmarks["right_shoulder"]))
    THEN None
    ELSE geometry_calculate_symmetry(landmarks["left_shoulder"], landmarks["right_shoulder"])

_calculate_shoulder_height_diff(landmarks) ==
    IF ~AllPresent(<<landmarks["left_shoulder"], landmarks["right_shoulder"]>>) THEN None
    ELSE geometry_calculate_symmetry(landmarks["left_shoulder"], landmarks["right_shoulder"])

_calculate_hip_height_diff(landmarks) ==
    IF ~AllPresent(<<landmarks["left_hip"], landmarks["right_hip"]>>) THEN None
    ELSE geometry_calculate_symmetry(landmarks["left_hip"], landmarks["right_hip"])

_calculate_shoulder_width_ratio(landmarks, ulp) ==
    IF ~AllPresent(<<landmarks["left_shoulder"], landmarks["right_shoulder"],
                     landmarks["left_hip"], landmarks["right_hip"]>>)
    THEN None
    ELSE calculate_width_ratio(landmarks["left_shoulder"], landmarks["right_shoulder"],
                               landmarks["left_hip"], landmarks["right_hip"], ulp)

\* the ratio taken with the shoulders as the reference pair in both methods
_calculate_hip_width_ratio_SameAsShoulder(landmarks, ulp) ==
    _calculate_shoulder_width_ratio(landmarks, ulp)

_calculate_hip_width_ratio(landmarks, ulp) ==
    IF ~AllPresent(<<landmarks["left_shoulder"], landmarks["right_shoulder"],
                     landmarks["left_hip"], landmarks["right_hip"]>>)
    THEN None
    ELSE calculate_width_ratio(landmarks["left_hip"], landmarks["right_hip"],
                               landmarks["left_shoulder"], landmarks["right_shoulder"], ulp)

\* the le= bounds of the Symmetry schema (response.py:67-70)
HeightDiffMax == Rat(1, 1)
WidthRatioMax == Rat(5, 1)

\* a pydantic field Optional[float] with ge=0, le=hi accepts o
FieldOk(o, hi) == IsNone(o) \/ (~RGt(RZero, Val(o)) /\ ~RGt(Val(o), hi))

\* a Symmetry constructor that accepts every value
calculate_symmetry_Unvalidated(landmarks, ulp) ==
    Some([shoulder_height_diff |-> _calculate_shoulder_height_diff(landmarks),
          hip_height_diff |-> _calculate_hip_height_diff(landmarks),
          shoulder_width_ratio |-> _calculate_shoulder_width_ratio(landmarks, ulp),
          hip_width_ratio |-> _calculate_hip_width_ratio(landmarks, ulp)])

\* AngleCalculator.calculate_symmetry: the four metrics, then the Symmetry
\* constructor, which raises ValidationError when a field is out of bounds.
\* The result is <<>> when the constructor raised.
calculate_symmetry(landmarks, ulp) ==
    LET shoulder_height_diff == _calculate_shoulder_height_diff(landmarks)
        hip_height_diff == _calculate_hip_height_diff(landmarks)
        shoulder_width_ratio == _calculate_shoulder_width_ratio(landmarks, ulp)
        hip_width_ratio == _calculate_hip_width_ratio(landmarks, ulp)
    IN  IF /\ FieldOk(shoulder_height_diff, HeightDiffMax)
           /\ FieldOk(hip_height_diff, HeightDiffMax)
           /\ FieldOk(shoulder_width_ratio, WidthRatioMax)
           /\ FieldOk(hip_width_ratio, WidthRatioMax)
        THEN Some([shoulder_height_diff |-> shoulder_height_diff,
                   hip_height_diff |-> hip_height_diff,
                   shoulder_width_ratio |-> shoulder_width_ratio,
                   hip_width_ratio |-> hip_width_ratio])
        ELSE None

-----------------------------------------------------------------------------
(* The geometry kernel (app/utils/geometry.py) *)

RSub(a, b) == Rat(a.n * b.d - b.n * a.d, a.d * b.d)
RMul(a, b) == Rat(a.n * b.n, a.d * b.d)
RLt(a, b) == a.n * b.d < b.n * a.d
RAbs(a) == Rat(Abs(a.n), a.d)
Sign(a) == IF a.n > 0 THEN 1 ELSE IF a.n < 0 THEN -1 ELSE 0

\* an exception leaving a function: neither None (<<>>) nor a value (<<v>>)
Raises(class) == <<"raise", class>>
IsRaise(o) == Len(o) = 2
Present(o) == Len(o) = 1

\* Python floats are IEEE-754 doubles.  Three effects of their rounding
\* decide outcomes of this code and are modelled:
\*   - a nonzero product below the smallest positive double is 0.0;
\*   - the quotient dot/(mag1*mag2) of two parallel vectors can round to the
\*     double next above 1.0 or next below it (fp_ulp);
\*   - x + 360 is 360.0 when |x| is below half the spacing of doubles at 360.
\* The model's integers are 32-bit, so the two thresholds are scaled up
\* together with SmallCoord, the one small coordinate the inputs are drawn
\* with: FloatMinPositive stands for 2^-1074 and HalfUlp360Slope for the
\* slope (about 2^-51) whose direction is within 2^-45 degrees of the x-axis.
\* Both scaled thresholds lie below what coordinates on a grid of hundredths
\* produce, as the real ones lie below what a detector's coordinates produce.
FloatMinPositive == Rat(1, 10000)
HalfUlp360Slope == Rat(1, 100)

\* a * b on doubles
FloatMul(a, b) ==
    LET p == RMul(a, b)
    IN  IF RLt(RAbs(p), FloatMinPositive) THEN RZero ELSE p

\* math.sqrt(q), kept symbolic: it is 0.0 exactly when q is
sqrt(q) == [sqrt_of |-> q]

\* dot_product / (mag1 * mag2): the number sgn * sqrt(sq), which the float
\* division delivers one ulp high or low (ulp) when the exact value is +-1
FloatCos(dot_product, mag1, mag2, ulp) ==
    LET sq == RMul(RDiv(dot_product, mag1.sqrt_of), RDiv(dot_product, mag2.sqrt_of))
    IN  [sgn |-> Sign(dot_product), sq |-> sq, ulp |-> IF sq = ROne THEN ulp ELSE 0]

\* cos_angle > 1.0 or cos_angle < -1.0
OutsideUnit(c) == RGt(c.sq, ROne) \/ (c.sq = ROne /\ c.ulp = 1)

\* max(-1.0, min(1.0, cos_angle))
clamp(c) == IF OutsideUnit(c) THEN [sgn |-> c.sgn, sq |-> ROne, ulp |-> 0] ELSE c

\* math.degrees(math.acos(c)): ValueError outside [-1, 1]; otherwise the
\* degrees d with lo <= d <= hi, exact (lo = hi) at c = 1, 0, -1
acos_degrees(c) ==
    IF OutsideUnit(c) THEN Raises("ValueError")
    ELSE Some([cos |-> c,
               lo |-> IF c.sgn > 0 THEN 0 ELSE IF c.sgn = 0 THEN 90
                      ELSE IF c.sq = ROne /\ c.ulp = 0 THEN 180 ELSE 90,
               hi |-> IF c.sgn < 0 THEN 180 ELSE IF c.sgn = 0 THEN 90
                      ELSE IF c.sq = ROne /\ c.ulp = 0 THEN 0 ELSE 90])

\* geometry.py:17-47; ulp is the rounding of the float quotient
calculate_angle(point1, point2, point3, ulp) ==
    IF ~AllPresent(<<point1, point2, point3>>) THEN None
    ELSE LET p1 == Val(point1)
             p2 == Val(point2)
             p3 == Val(point3)
             v1 == <<RSub(p1.x, p2.x), RSub(p1.y, p2.y)>>
             v2 == <<RSub(p3.x, p2.x), RSub(p3.y, p2.y)>>
             dot_product == RAdd(FloatMul(v1[1], v2[1]), FloatMul(v1[2], v2[2]))
             mag1 == sqrt(RAdd(FloatMul(v1[1], v1[1]), FloatMul(v1[2], v1[2])))
             mag2 == sqrt(RAdd(FloatMul(v2[1], v2[1]), FloatMul(v2[2], v2[2])))
         IN  IF mag1 = sqrt(RZero) \/ mag2 = sqrt(RZero) THEN None
             ELSE acos_degrees(clamp(FloatCos(dot_product, mag1, mag2, ulp)))

\* math.degrees(math.atan2(dy, dx)): the degrees d with lo <= d <= hi, exact
\* on the axes; negative is d < 0; tiny is 0 < |d| < half the spacing of
\* doubles at 360.0
atan2_degrees(dy, dx) ==
    LET sy == Sign(dy)
        sx == Sign(dx)
    IN  [lo |-> IF sy = 0 THEN (IF sx < 0 THEN 180 ELSE 0)
                ELSE IF sy > 0 THEN (IF sx > 0 THEN 0 ELSE 90)
                ELSE (IF sx < 0 THEN -180 ELSE -90),
         hi |-> IF sy = 0 THEN (IF sx < 0 THEN 180 ELSE 0)
                ELSE IF sy > 0 THEN (IF sx < 0 THEN 180 ELSE 90)
                ELSE (IF sx > 0 THEN 0 ELSE -90),
         negative |-> sy < 0,
         tiny |-> sy # 0 /\ sx > 0 /\ RLt(RAbs(dy), RMul(HalfUlp360Slope, dx))]

\* angle_deg += 360 on doubles, for angle_deg < 0
FloatAdd360(a) ==
    IF a.tiny THEN [lo |-> 360, hi |-> 360]
    ELSE [lo |-> a.lo + 360, hi |-> a.hi + 360]

\* the ge=0, le=360 of AlignmentVector.angle_degrees (response.py:54)
AngleDegreesOk(a) == 0 <= a.lo /\ a.hi <= 360

\* geometry.py:50-72
calculate_alignment_vector(point1, point2) ==
    IF IsNone(point1) \/ IsNone(point2) THEN None
    ELSE LET dx == RSub(Val(point2).x, Val(point1).x)
             dy == RSub(Val(point2).y, Val(point1).y)
             magnitude == sqrt(RAdd(FloatMul(dx, dx), FloatMul(dy, dy)))
             angle_deg == atan2_degrees(dy, dx)
             normalized == IF angle_deg.negative THEN FloatAdd360(angle_deg)
                           ELSE [lo |-> angle_deg.lo, hi |-> angle_deg.hi]
         IN  IF AngleDegreesOk(normalized)
             THEN Some([dx |-> dx, dy |-> dy, magnitude |-> magnitude,
                        angle_degrees |-> normalized])
             ELSE Raises("ValidationError")

-----------------------------------------------------------------------------
(* The metrics engine (app/services/angle_calculator.py) *)

\* angle_calculator.py:42-51
_calculate_neck_angle(landmarks, ulp) ==
    IF ~AllPresent(<<landmarks["left_ear"], landmarks["left_shoulder"],
                     landmarks["left_hip"]>>)
    THEN None
    ELSE calculate_angle(landmarks["left_ear"], landmarks["left_shoulder"],
                         landmarks["left_hip"], ulp)

\* (a + b) / 2
Mid(a, b) == RDivInt(RAdd(a, b), 2)

\* angle_calculator.py:53-75
_calculate_spine_angle(landmarks, ulp) ==
    IF ~AllPresent(<<landmarks["left_shoulder"], landmarks["right_shoulder"],
                     landmarks["left_hip"], landmarks["right_hip"],
                     landmarks["left_knee"], landmarks["right_knee"]>>)
    THEN None
    ELSE LET shoulder_center ==
                 Some(LandmarkPoint(
                     Mid(Val(landmarks["left_shoulder"]).x, Val(landmarks["right_shoulder"]).x),
                     Mid(Val(landmarks["left_shoulder"]).y, Val(landmarks["right_shoulder"]).y),
                     None))
             hip_center ==
                 Some(LandmarkPoint(
                     Mid(Val(landmarks["left_hip"]).x, Val(landmarks["right_hip"]).x),
                     Mid(Val(landmarks["left_hip"]).y, Val(landmarks["right_hip"]).y),
                     None))
             knee_center ==
                 Some(LandmarkPoint(
                     Mid(Val(landmarks["left_knee"]).x, Val(landmarks["right_knee"]).x),
                     Mid(Val(landmarks["left_knee"]).y, Val(landmarks["right_knee"]).y),
                     None))
         IN  calculate_angle(shoulder_center, hip_center, knee_center, ulp)

\* angle_calculator.py:77-86
_calculate_shoulder_angle(landmarks, side, ulp) ==
    IF side = "left"
    THEN IF ~AllPresent(<<landmarks["left_ear"],
                         landmarks["left_shoulder"],
                         landmarks["left_elbow"]>>)
         THEN None
         ELSE calculate_angle(landmarks["left_ear"],
                              landmarks["left_shoulder"],
                              landmarks["left_elbow"], ulp)
    ELSE IF ~AllPresent(<<landmarks["right_ear"],
                         landmarks["right_shoulder"],
                         landmarks["right_elbow"]>>)
         THEN None
         ELSE calculate_angle(landmarks["right_ear"],
                              landmarks["right_shoulder"],
                              landmarks["right_elbow"], ulp)

\* angle_calculator.py:88-97
_calculate_elbow_angle(landmarks, side, ulp) ==
    IF side = "left"
    THEN IF ~AllPresent(<<landmarks["left_shoulder"],
                         landmarks["left_elbow"],
                         landmarks["left_wrist"]>>)
         THEN None
         ELSE calculate_angle(landmarks["left_shoulder"],
                              landmarks["left_elbow"],
                              landmarks["left_wrist"], ulp)
    ELSE IF ~AllPresent(<<landmarks["right_shoulder"],
                         landmarks["right_elbow"],
                         landmarks["right_wrist"]>>)
         THEN None
         ELSE calculate_angle(landmarks["right_shoulder"],
                              landmarks["right_elbow"],
                              landmarks["right_wrist"], ulp)

\* angle_calculator.py:99-108
_calculate_hip_angle(landmarks, side, ulp) ==
    IF side = "left"
    THEN IF ~AllPresent(<<landmarks["left_shoulder"],
                         landmarks["left_hip"],
                         landmarks["left_knee"]>>)
         THEN None
         ELSE calculate_angle(landmarks["left_shoulder"],
                              landmarks["left_hip"],
                              landmarks["left_knee"], ulp)
    ELSE IF ~AllPresent(<<landmarks["right_shoulder"],
                         landmarks["right_hip"],
                         landmarks["right_knee"]>>)
         THEN None
         ELSE calculate_angle(landmarks["right_shoulder"],
                              landmarks["right_hip"],
                              landmarks["right_knee"], ulp)

\* angle_calculator.py:110-119
_calculate_knee_angle(landmarks, side, ulp) ==
    IF side = "left"
    THEN IF ~AllPresent(<<landmarks["left_hip"],
                         landmarks["left_knee"],
                         landmarks["left_ankle"]>>)
         THEN None
         ELSE calculate_angle(landmarks["left_hip"],
                              landmarks["left_knee"],
                              landmarks["left_ankle"], ulp)
    ELSE IF ~AllPresent(<<landmarks["right_hip"],
                         landmarks["right_knee"],
                         landmarks["right_ankle"]>>)
         THEN None
         ELSE calculate_angle(landmarks["right_hip"],
                              landmarks["right_knee"],
                              landmarks["right_ankle"], ulp)

\* angle_calculator.py:121-126
_calculate_ear_to_shoulder_vector(landmarks) ==
    IF ~AllPresent(<<landmarks["left_ear"], landmarks["left_shoulder"]>>) THEN None
    ELSE calculate_alignment_vector(landmarks["left_ear"], landmarks["left_shoulder"])

\* the shoulder to hip vector drawn on the right side
_calculate_shoulder_to_hip_vector_RightSide(landmarks) ==
    IF ~AllPresent(<<landmarks["right_shoulder"], landmarks["right_hip"]>>) THEN None
    ELSE calculate_alignment_vector(landmarks["right_shoulder"], landmarks["right_hip"])

\* angle_calculator.py:128-133
_calculate_shoulder_to_hip_vector(landmarks) ==
    IF ~AllPresent(<<landmarks["left_shoulder"], landmarks["left_hip"]>>) THEN None
    ELSE calculate_alignment_vector(landmarks["left_shoulder"], landmarks["left_hip"])

\* angle_calculator.py:135-140
_calculate_hip_to_knee_vector(landmarks) ==
    IF ~AllPresent(<<landmarks["left_hip"], landmarks["left_knee"]>>) THEN None
    ELSE calculate_alignment_vector(landmarks["left_hip"], landmarks["left_knee"])

\* angle_calculator.py:142-147
_calculate_knee_to_ankle_vector(landmarks) ==
    IF ~AllPresent(<<landmarks["left_knee"], landmarks["left_ankle"]>>) THEN None
    ELSE calculate_alignment_vector(landmarks["left_knee"], landmarks["left_ankle"])

\* the names of a record's fields whose computation raised
Raised(fields) == {f \in DOMAIN fields : IsRaise(fields[f])}

\* a pydantic field Optional[float] with ge=0, le=180 accepts the angle o
\* (response.py:37-46)
AngleFieldOk(o) == IsNone(o) \/ (0 <= Val(o).lo /\ Val(o).hi <= 180)

\* angle_calculator.py:9-22: the ten angles, then the JointAngles
\* constructor.  An exception of an argument propagates; the constructor
\* raises ValidationError on a field out of bounds.
calculate_joint_angles(landmarks, ulp) ==
    LET fields ==
            [neck_angle |-> _calculate_neck_angle(landmarks, ulp),
             spine_angle |-> _calculate_spine_angle(landmarks, ulp),
             left_shoulder_angle |-> _calculate_shoulder_angle(landmarks, "left", ulp),
             right_shoulder_angle |-> _calculate_shoulder_angle(landmarks, "right", ulp),
             left_elbow_angle |-> _calculate_elbow_angle(landmarks, "left", ulp),
             right_elbow_angle |-> _calculate_elbow_angle(landmarks, "right", ulp),
             left_hip_angle |-> _calculate_hip_angle(landmarks, "left", ulp),
             right_hip_angle |-> _calculate_hip_angle(landmarks, "right", ulp),
             left_knee_angle |-> _calculate_knee_angle(landmarks, "left", ulp),
             right_knee_angle |-> _calculate_knee_angle(landmarks, "right", ulp)]
    IN  IF Raised(fields) # {}
        THEN fields[CHOOSE f \in Raised(fields) : TRUE]
        ELSE IF \A f \in DOMAIN fields : AngleFieldOk(fields[f])
        THEN Some(fields)
        ELSE Raises("ValidationError")

\* angle_calculator.py:24-31: the four vectors, then the AlignmentVectors
\* constructor
calculate_alignment_vectors(landmarks) ==
    LET fields ==
            [ear_to_shoulder |-> _calculate_ear_to_shoulder_vector(landmarks),
             shoulder_to_hip |-> _calculate_shoulder_to_hip_vector(landmarks),
             hip_to_knee |-> _calculate_hip_to_knee_vector(landmarks),
             knee_to_ankle |-> _calculate_knee_to_ankle_vector(landmarks)]
    IN  IF Raised(fields) # {}
        THEN fields[CHOOSE f \in Raised(fields) : TRUE]
        ELSE Some(fields)

-----------------------------------------------------------------------------
(* process_video (app/services/pose_estimator.py) *)

FRAME_SAMPLE_RATE == 30
MaxProcessedFrames == 50

Hundredths(k) == Rat(k, 100)
MockPoint(x, y, c) == Some(LandmarkPoint(Hundredths(x), Hundredths(y), Some(Hundredths(c))))

_generate_mock_landmarks ==
    [s \in Slots |->
        CASE s = "nose"           -> MockPoint(50, 15, 90)
          [] s = "left_eye"       -> MockPoint(48, 14, 90)
          [] s = "right_eye"      -> MockPoint(52, 14, 90)
          [] s = "left_ear"       -> MockPoint(45, 15, 80)
          [] s = "right_ear"      -> MockPoint(55, 15, 80)
          [] s = "left_shoulder"  -> MockPoint(42, 25, 90)
          [] s = "right_shoulder" -> MockPoint(58, 25, 90)
          [] s = "left_elbow"     -> MockPoint(35, 35, 80)
          [] s = "right_elbow"    -> MockPoint(65, 35, 80)
          [] s = "left_wrist"     -> MockPoint(30, 45, 70)
          [] s = "right_wrist"    -> MockPoint(70, 45, 70)
          [] s = "left_hip"       -> MockPoint(45, 50, 90)
          [] s = "right_hip"      -> MockPoint(55, 50, 90)
          [] s = "left_knee"      -> MockPoint(47, 70, 80)
          [] s = "right_knee"     -> MockPoint(53, 70, 80)
          [] s = "left_ankle"     -> MockPoint(48, 90, 70)
          [] s = "right_ankle"    -> MockPoint(52, 90, 70)]

\* What the external detector reports on the frames of one video.  A video
\* is [nframes, det]; det names the detector's behaviour on its frames.
TorsoOnly(lsx, rsx, lhx, rhx, hipConf) ==
    [s \in Slots |->
        CASE s = "left_shoulder"  -> MockPoint(lsx, 25, 90)
          [] s = "right_shoulder" -> MockPoint(rsx, 25, 90)
          [] s = "left_hip"       -> MockPoint(lhx, 50, hipConf)
          [] s = "right_hip"      -> MockPoint(rhx, 52, hipConf)
          [] OTHER                -> None]

\* _process_frame_mediapipe: None when the detector found no pose on the
\* frame; cv2.cvtColor, pose.process and the Landmarks constructor may raise
_process_frame_mediapipe(det, frame_count) ==
    CASE det = "full"     -> Some(_generate_mock_landmarks)
      [] det = "throws"   -> IF frame_count = FRAME_SAMPLE_RATE
                             THEN Some(_generate_mock_landmarks)
                             ELSE Raises("RuntimeError")
      [] det = "lowhips"  -> Some(TorsoOnly(42, 58, 45, 55, 40))
      [] det = "wide"     -> Some(TorsoOnly(10, 90, 45, 55, 90))
      [] det = "flicker"  -> IF frame_count = FRAME_SAMPLE_RATE
                             THEN Some(TorsoOnly(40, 60, 44, 56, 90))
                             ELSE Some(TorsoOnly(44, 56, 46, 54, 40))
      [] OTHER            -> None

_process_frame_mock == Some(_generate_mock_landmarks)

\* the implementation that process_frame dispatches to
Implementation == IF MEDIAPIPE_AVAILABLE THEN "mediapipe" ELSE "mock"

process_frame(det, frame_count) ==
    IF MEDIAPIPE_AVAILABLE THEN _process_frame_mediapipe(det, frame_count)
    ELSE _process_frame_mock

\* the while-loop of process_video from the state (frame_count,
\* landmarks_list, processed_frames) to its exit; raised is the exception
\* that left the loop, if one did.  The frames before the next multiple of
\* FRAME_SAMPLE_RATE are read and skipped (`continue`), so the loop is
\* followed from one frame handed to process_frame to the next.
RECURSIVE ReadLoop(_, _, _, _)
ReadLoop(video, frame_count, lst, processed_frames) ==
    LET fc == (frame_count \div FRAME_SAMPLE_RATE + 1) * FRAME_SAMPLE_RATE
    IN  IF fc > video.nframes
        THEN [landmarks_list |-> lst, processed_frames |-> processed_frames, raised |-> None]
        ELSE LET landmarks == process_frame(video.det, fc)
                 lst2 == IF Present(landmarks) THEN Append(lst, Val(landmarks)) ELSE lst
                 pf2 == IF Present(landmarks) THEN processed_frames + 1
                        ELSE processed_frames
             IN  IF IsRaise(landmarks)
                 THEN [landmarks_list |-> lst, processed_frames |-> processed_frames,
                       raised |-> Some(landmarks[2])]
                 ELSE IF pf2 >= MaxProcessedFrames
                 THEN [landmarks_list |-> lst2, processed_frames |-> pf2, raised |-> None]
                 ELSE ReadLoop(video, fc, lst2, pf2)

\* process_video on a video that could be opened: the list and the count it
\* returns, or the exception that leaves it (raised).  origin is not a value
\* of the program: it records which code produced the returned Skeletons,
\* the implementation behind process_frame or the fallback of lines 115-118.
process_video(video) ==
    LET r == ReadLoop(video, 0, <<>>, 0)
    IN  IF IsNone(r.raised) /\ r.landmarks_list = <<>>
        THEN [landmarks_list |-> <<_generate_mock_landmarks>>, processed_frames |-> 1,
              raised |-> None, origin |-> "mock"]
        ELSE [landmarks_list |-> r.landmarks_list, processed_frames |-> r.processed_frames,
              raised |-> r.raised, origin |-> Implementation]

-----------------------------------------------------------------------------
(* The form field video_angle and the precondition checks (routes.py:63-99) *)

\* A string is a sequence of atoms: a word, " " (whitespace) or ",".
\* str.split(','): the pieces between the commas; never an empty list
RECURSIVE split(_)
split(s) ==
    IF s = <<>> THEN << <<>> >>
    ELSE LET rest == split(Tail(s))
         IN  IF Head(s) = "," THEN << <<>> >> \o rest
             ELSE << <<Head(s)>> \o rest[1] >> \o Tail(rest)

RECURSIVE lstrip(_)
lstrip(t) == IF t # <<>> /\ Head(t) = " " THEN lstrip(Tail(t)) ELSE t

RECURSIVE rstrip(_)
rstrip(t) ==
    IF t # <<>> /\ t[Len(t)] = " " THEN rstrip(SubSeq(t, 1, Len(t) - 1)) ELSE t

\* strip that leaves the token as it is
strip_Identity(t) == t

\* str.strip()
strip(t) == rstrip(lstrip(t))

\* [angle.strip() for angle in video_angle.split(',')]
ParseAngles(s) ==
    LET parts == split(s)
    IN  [k \in 1..Len(parts) |-> strip(parts[k])]

\* [angle.value for angle in VideoAngle] (request.py:6-11)
valid_angles == <<"front", "left", "right", "back">>

\* `angle in valid_angles`: the token is exactly one of the four words
InValidAngles(angle) == \E k \in 1..Len(valid_angles) : angle = <<valid_angles[k]>>

MAX_VIDEOS == 4

\* the checks without the duplicate-angle check
PreconditionFault_NoDuplicateCheck(vs, angles) ==
    IF Len(vs) # Len(angles) THEN "count_mismatch"
    ELSE IF Len(vs) = 0 THEN "no_videos"
    ELSE IF Len(vs) > 4 THEN "too_many_videos"
    ELSE IF \E k \in 1..Len(angles) : angles[k] \notin {<<"front">>, <<"left">>, <<"right">>, <<"back">>}
         THEN "invalid_angle"
    ELSE "ok"

\* the checks in source order; "ok" when none raises
PreconditionFault(vs, angles) ==
    IF Len(vs) # Len(angles) THEN "count_mismatch"
    ELSE IF Len(vs) = 0 THEN "no_videos"
    ELSE IF Len(vs) > MAX_VIDEOS THEN "too_many_videos"
    ELSE IF \E k \in 1..Len(angles) : ~InValidAngles(angles[k]) THEN "invalid_angle"
    ELSE IF Cardinality({angles[k] : k \in 1..Len(angles)}) # Len(angles)
         THEN "duplicate_angle"
    ELSE "ok"

PreconditionFaults ==
    {"count_mismatch", "no_videos", "too_many_videos", "invalid_angle", "duplicate_angle"}

-----------------------------------------------------------------------------
(* Upload helpers (app/utils/file_utils.py, app/core/exceptions.py) *)

MAX_FILE_SIZE == 100 * 1024 * 1024
ALLOWED_EXTENSIONS == {".mp4", ".mov", ".avi", ".mkv"}

\* str.lower() on the suffixes that occur
lower(suffix) ==
    CASE suffix = ".MP4" -> ".mp4"
      [] suffix = ".MOV" -> ".mov"
      [] suffix = ".Txt" -> ".txt"
      [] OTHER -> suffix

\* an exception in flight: its class, the HTTP status the client gets when it
\* leaves the handler (500 for anything that is not an HTTPException) and
\* its message
HTTPException(status_code, detail) ==
    [class |-> "HTTPException", status |-> status_code, detail |-> detail]
PyException(class, detail) == [class |-> class, status |-> 500, detail |-> detail]

raise_video_processing_error(message) ==
    HTTPException(422, <<"Video processing error", message>>)
raise_invalid_format_error == HTTPException(400, <<"Invalid video format">>)
raise_file_too_large_error == HTTPException(413, <<"File too large">>)

\* validate_video_file: <<>> when it returns, <<e>> when it raises e
validate_video_file(file) ==
    IF lower(file.ext) \notin ALLOWED_EXTENSIONS THEN Some(raise_invalid_format_error)
    ELSE IF IsSome(file.size) /\ Val(file.size) # 0 /\ Val(file.size) > MAX_FILE_SIZE
         THEN Some(raise_file_too_large_error)
    ELSE None

\* paths carry a fresh uuid4: one per video of the request
UploadPath(k) == <<"uploads", k>>
ThumbnailPath(k) == <<"static/thumbnails", k>>

\* cleanup that returns after the first path
cleanup_temp_files_FirstOnly(d, file_paths) ==
    IF file_paths = <<>> THEN d ELSE d \ {Head(file_paths)}

RECURSIVE cleanup_temp_files(_, _)
\* the files left on disk d after cleanup_temp_files(file_paths)
cleanup_temp_files(d, file_paths) ==
    IF file_paths = <<>> THEN d
    ELSE cleanup_temp_files(
            IF Head(file_paths) \in d THEN d \ {Head(file_paths)} ELSE d,
            Tail(file_paths))

-----------------------------------------------------------------------------
(* analyze_posture (app/api/routes.py:33-155) *)

\* zip that pairs the videos with the angles in reverse order
zip_Misaligned(a, b) ==
    LET n == IF Len(a) < Len(b) THEN Len(a) ELSE Len(b)
    IN  [k \in 1..n |-> <<a[k], b[n + 1 - k]>>]

\* zip(videos, video_angles)
zip(a, b) ==
    [k \in 1..(IF Len(a) < Len(b) THEN Len(a) ELSE Len(b)) |-> <<a[k], b[k]>>]

\* VideoAngle(angle): the enum member whose value is the (validated) token
VideoAngle(angle) == angle[1]

\* upload and origin are not locals of the program: they record which
\* UploadFile was written to video_path and which code produced landmarks_list
NoCur ==
    [video_path |-> None, upload |-> None, origin |-> None, landmarks_list |-> <<>>,
     frame_count |-> 0, landmarks |-> None, joint_angles |-> None,
     alignment_vectors |-> None, symmetry |-> None]

\* an exception e propagates to the handler's except branch; kind names the
\* failure for the history variable fault
Raise(kind, e) ==
    /\ exc' = Some(e)
    /\ fault' = IF fault = "none" THEN kind ELSE fault
    /\ pc' = "except"

\* routes.py:63-99
CheckPreconditions ==
    /\ pc = "start"
    /\ video_angles' = ParseAngles(video_angle)
    /\ LET f == PreconditionFault(videos, ParseAngles(video_angle))
       IN  IF f # "ok"
           THEN /\ exc' = Some(HTTPException(400, <<f>>))
                /\ status' = 400
                /\ fault' = f
                /\ pc' = "done"
           ELSE /\ pc' = "init"
                /\ UNCHANGED <<exc, status, fault>>
    /\ UNCHANGED <<videos, video_angle, services, idx, analyses, temp_files,
                   disk, cur, response, log>>

\* routes.py:101-107
InitServices ==
    /\ pc = "init"
    /\ services' = TRUE
    /\ analyses' = <<>>
    /\ temp_files' = <<>>
    /\ idx' = 1
    /\ pc' = "loop"
    /\ UNCHANGED <<videos, video_angle, video_angles, disk, cur, exc, status,
                   response, fault, log>>

\* routes.py:111-113: the next pair of the loop, validate_video_file
ValidateFile ==
    /\ pc = "loop"
    /\ idx <= Len(zip(videos, video_angles))
    /\ log' = Append(log, <<"validate", idx>>)
    /\ LET video_file == zip(videos, video_angles)[idx][1]
           r == validate_video_file(video_file)
       IN  IF IsSome(r)
           THEN Raise(IF Val(r).status = 413 THEN "file_too_large" ELSE "invalid_format",
                      Val(r))
           ELSE /\ pc' = "save"
                /\ UNCHANGED <<exc, fault>>
    /\ UNCHANGED <<videos, video_angle, video_angles, services, idx, analyses,
                   temp_files, disk, cur, status, response>>

\* routes.py:116-118: save_uploaded_file creates the file when it opens it
\* and may fail before that (mkdir, open) or after it (read, write)
SaveOutcomes == {"ok", "fail_before_create", "fail_after_create"}

SaveFile ==
    /\ pc = "save"
    /\ \E outcome \in SaveOutcomes :
        LET video_file == zip(videos, video_angles)[idx][1]
            video_path == UploadPath(idx)
        IN  /\ disk' = IF outcome = "fail_before_create" THEN disk
                       ELSE disk \cup {video_path}
            /\ IF outcome = "ok"
               THEN /\ temp_files' = Append(temp_files, video_path)
                    /\ cur' = [NoCur EXCEPT !.video_path = Some(video_path),
                                             !.upload = Some(video_file.name)]
                    /\ log' = Append(log, <<"save", idx>>)
                    /\ pc' = "decode"
                    /\ UNCHANGED <<exc, fault>>
               ELSE /\ Raise("save_failed", PyException("OSError", <<outcome>>))
                    /\ UNCHANGED <<temp_files, cur, log>>
    /\ UNCHANGED <<videos, video_angle, video_angles, services, idx, analyses,
                   status, response>>

\* what the decoder and the detector make of an upload
VideoContents ==
    {[nframes |-> 2 * FRAME_SAMPLE_RATE, det |-> "full"],
     [nframes |-> 2 * FRAME_SAMPLE_RATE, det |-> "flicker"],
     [nframes |-> 2 * FRAME_SAMPLE_RATE, det |-> "lowhips"],
     [nframes |-> 2 * FRAME_SAMPLE_RATE, det |-> "wide"],
     [nframes |-> 2 * FRAME_SAMPLE_RATE, det |-> "throws"],
     [nframes |-> FRAME_SAMPLE_RATE - 1, det |-> "lowhips"]}

\* routes.py:170, pose_estimator.py:83-120
DecodeVideo ==
    /\ pc = "decode"
    /\ \E opened \in BOOLEAN, video \in VideoContents :
        IF ~opened
        THEN /\ Raise("decode_failed", PyException("PoseDetectionError", <<"Could not open video">>))
             /\ UNCHANGED <<cur, log>>
        ELSE \E r \in {process_video(video)} :
             IF IsSome(r.raised)
             THEN /\ Raise("decode_failed", PyException(Val(r.raised), <<"detector">>))
                  /\ UNCHANGED <<cur, log>>
             ELSE /\ cur' = [cur EXCEPT !.landmarks_list = r.landmarks_list,
                                        !.frame_count = r.processed_frames,
                                        !.origin = Some(r.origin)]
                  /\ log' = Append(log, <<"decode", idx>>)
                  /\ pc' = "aggregate"
                  /\ UNCHANGED <<exc, fault>>
    /\ UNCHANGED <<videos, video_angle, video_angles, services, idx, analyses,
                   temp_files, disk, status, response>>

\* routes.py:173
AggregateVideo ==
    /\ pc = "aggregate"
    /\ cur' = [cur EXCEPT !.landmarks = Some(get_average_landmarks(cur.landmarks_list, fp_ulp))]
    /\ log' = Append(log, <<"aggregate", idx>>)
    /\ pc' = "gate"
    /\ UNCHANGED <<videos, video_angle, video_angles, services, idx, analyses,
                   temp_files, disk, exc, status, response, fault>>

\* a gate whose verdict is not acted on
GateVideo_VerdictIgnored ==
    /\ pc = "gate"
    /\ log' = Append(log, <<"gate", idx>>)
    /\ pc' = "metrics"
    /\ UNCHANGED <<exc, fault>>
    /\ UNCHANGED <<videos, video_angle, video_angles, services, idx, analyses,
                   temp_files, disk, cur, status, response>>

\* routes.py:176-177
GateVideo ==
    /\ pc = "gate"
    /\ log' = Append(log, <<"gate", idx>>)
    /\ IF ~validate_pose_detection(Val(cur.landmarks))
       THEN Raise("gate_rejected",
                  raise_video_processing_error(<<"Insufficient pose detection quality">>))
       ELSE /\ pc' = "metrics"
            /\ UNCHANGED <<exc, fault>>
    /\ UNCHANGED <<videos, video_angle, video_angles, services, idx, analyses,
                   temp_files, disk, cur, status, response>>

\* routes.py:180-186
MetricsVideo ==
    /\ pc = "metrics"
    /\ log' = Append(log, <<"metrics", idx>>)
    /\ \E joint_angles \in {calculate_joint_angles(Val(cur.landmarks), fp_ulp)},
          alignment_vectors \in {calculate_alignment_vectors(Val(cur.landmarks))},
          symmetry \in {calculate_symmetry(Val(cur.landmarks), fp_ulp)} :
           IF IsRaise(joint_angles)
           THEN /\ Raise("metrics_failed", PyException(joint_angles[2], <<"JointAngles">>))
                /\ UNCHANGED cur
           ELSE IF IsRaise(alignment_vectors)
           THEN /\ Raise("metrics_failed",
                         PyException(alignment_vectors[2], <<"AlignmentVectors">>))
                /\ UNCHANGED cur
           ELSE IF IsNone(symmetry)
           THEN /\ Raise("metrics_failed", PyException("ValidationError", <<"Symmetry">>))
                /\ UNCHANGED cur
           ELSE /\ cur' = [cur EXCEPT !.joint_angles = joint_angles,
                                      !.alignment_vectors = alignment_vectors,
                                      !.symmetry = symmetry]
                /\ pc' = "thumbnail"
                /\ UNCHANGED <<exc, fault>>
    /\ UNCHANGED <<videos, video_angle, video_angles, services, idx, analyses,
                   temp_files, disk, status, response>>

\* routes.py:204-214; video_path, upload and origin are not fields of the
\* response: they record which saved file, which upload and which detector
\* code the analysis was computed from
VideoAnalysisResponse(video_angle_, thumbnail_path) ==
    [video_angle |-> video_angle_,
     thumbnail_path |-> thumbnail_path,
     landmarks |-> Val(cur.landmarks),
     joint_angles |-> Val(cur.joint_angles),
     alignment_vectors |-> Val(cur.alignment_vectors),
     symmetry |-> Val(cur.symmetry),
     metadata |-> [video_angle |-> video_angle_, frame_count |-> cur.frame_count],
     video_path |-> Val(cur.video_path),
     upload |-> Val(cur.upload),
     origin |-> Val(cur.origin)]

ThumbnailOutcomes == {"ok", "no_frame"}

\* routes.py:189-214 and 138: generate_thumbnail persists the image, then
\* the analysis is built and appended
ThumbnailVideo ==
    /\ pc = "thumbnail"
    /\ \E outcome \in ThumbnailOutcomes :
        IF outcome = "no_frame"
        THEN /\ Raise("thumbnail_failed",
                      PyException("ValueError", <<"Could not extract frame from video">>))
             /\ UNCHANGED <<disk, analyses, idx, log>>
        ELSE LET angle == zip(videos, video_angles)[idx][2]
             IN  /\ disk' = disk \cup {ThumbnailPath(idx)}
                 /\ log' = Append(log, <<"thumbnail", idx>>)
                 /\ analyses' = Append(analyses,
                        VideoAnalysisResponse(VideoAngle(angle), ThumbnailPath(idx)))
                 /\ idx' = idx + 1
                 /\ pc' = "loop"
                 /\ UNCHANGED <<exc, fault>>
    /\ UNCHANGED <<videos, video_angle, video_angles, services, temp_files, cur,
                   status, response>>

\* the loop is exhausted: control reaches finally with no exception
LoopExit ==
    /\ pc = "loop"
    /\ idx > Len(zip(videos, video_angles))
    /\ pc' = "finally"
    /\ UNCHANGED <<videos, video_angle, video_angles, services, idx, analyses,
                   temp_files, disk, cur, exc, status, response, fault, log>>

\* an except branch that cleans up and swallows the exception
ExceptBranch_Swallow ==
    /\ pc = "except"
    /\ disk' = cleanup_temp_files(disk, temp_files)
    /\ exc' = None
    /\ pc' = "finally"
    /\ UNCHANGED <<videos, video_angle, video_angles, services, idx, analyses,
                   temp_files, cur, status, response, fault, log>>

\* an except branch that drops the failed video and goes on with the next
ExceptBranch_SkipVideo ==
    /\ pc = "except"
    /\ disk' = cleanup_temp_files(disk, temp_files)
    /\ exc' = None
    /\ idx' = idx + 1
    /\ pc' = "loop"
    /\ UNCHANGED <<videos, video_angle, video_angles, services, analyses,
                   temp_files, cur, status, response, fault, log>>

\* routes.py:140-143: `except Exception` catches every exception raised in
\* the loop, HTTPException included, and raises the 422 in its place
ExceptBranch ==
    /\ pc = "except"
    /\ disk' = cleanup_temp_files(disk, temp_files)
    /\ exc' = Some(raise_video_processing_error(Val(exc).detail))
    /\ pc' = "finally"
    /\ UNCHANGED <<videos, video_angle, video_angles, services, idx, analyses,
                   temp_files, cur, status, response, fault, log>>

\* routes.py:145-147: cleanup, then the exception in flight leaves the handler
FinallyBranch ==
    /\ pc = "finally"
    /\ disk' = cleanup_temp_files(disk, temp_files)
    /\ IF IsSome(exc)
       THEN /\ status' = Val(exc).status
            /\ pc' = "done"
       ELSE /\ pc' = "return"
            /\ UNCHANGED status
    /\ UNCHANGED <<videos, video_angle, video_angles, services, idx, analyses,
                   temp_files, cur, exc, response, fault, log>>

\* routes.py:150-155
ReturnResponse ==
    /\ pc = "return"
    /\ status' = 200
    /\ response' = Some([analyses |-> analyses])
    /\ pc' = "done"
    /\ UNCHANGED <<videos, video_angle, video_angles, services, idx, analyses,
                   temp_files, disk, cur, exc, fault, log>>

-----------------------------------------------------------------------------
(* The requests the handler is run on *)

\* the sequences over S of length lo..hi
SeqsOf(S, lo, hi) == UNION {[1..n -> S] : n \in lo..hi}

UploadFile(name, kind) == [name |-> name, ext |-> kind.ext, size |-> kind.size]

FileKinds ==
    {[ext |-> ".mp4", size |-> Some(MAX_FILE_SIZE)],
     [ext |-> ".MOV", size |-> None],
     [ext |-> ".Txt", size |-> Some(1024)],
     [ext |-> ".avi", size |-> Some(MAX_FILE_SIZE + 1)]}

\* the uploads of a request: the k-th is named k
Uploads(kinds) == [k \in 1..Len(kinds) |-> UploadFile(k, kinds[k])]

AngleStrings ==
    {<<>>,
     <<"front">>,
     <<"Front">>,
     <<"front", ",", "left">>,
     <<"left", ",", " ", "front", " ">>,
     <<"front", ",", "front">>,
     <<"front", ",", "up">>,
     <<"back", ",", "left", ",", "right">>,
     <<"front", ",", "left", ",", "right", ",", "back">>,
     <<"front", ",", "left", ",", "right", ",", "back", ",", "front">>}

ReqStart ==
    /\ pc = "start"
    /\ video_angles = <<>>
    /\ services = FALSE
    /\ idx = 0
    /\ analyses = <<>>
    /\ temp_files = <<>>
    /\ disk = {}
    /\ cur = NoCur
    /\ exc = None
    /\ status = 0
    /\ response = None
    /\ fault = "none"
    /\ log = <<>>

AggIdle ==
    /\ agg_pc = "idle"
    /\ landmarks_list = <<>>
    /\ avg_landmarks = None
    /\ gate_input = None
    /\ gate_result = None

GeoIdle ==
    /\ geo_pc = "idle"
    /\ fp_ulp = 0
    /\ geo_points = <<>>
    /\ geo_angle = None
    /\ geo_vector = None
    /\ geo_ratio = None

EngIdle ==
    /\ eng_pc = "idle"
    /\ eng_landmarks = None
    /\ eng_accepted = None
    /\ eng_joint_angles = None
    /\ eng_alignment_vectors = None
    /\ eng_symmetry = None

DecIdle ==
    /\ dec_pc = "idle"
    /\ dec_video = None
    /\ dec_frame_count = 0
    /\ dec_landmarks_list = <<>>
    /\ dec_processed_frames = 0
    /\ dec_detections = 0
    /\ dec_released = FALSE

Init ==
    /\ MEDIAPIPE_AVAILABLE \in BOOLEAN
    /\ videos \in {Uploads(kinds) : kinds \in SeqsOf(FileKinds, 0, MaxVideos)}
    /\ video_angle \in AngleStrings
    /\ ReqStart
    /\ AggIdle
    /\ GeoIdle
    /\ EngIdle
    /\ DecIdle

Next ==
    \/ CheckPreconditions /\ UNCHANGED notReqVars
    \/ InitServices /\ UNCHANGED notReqVars
    \/ ValidateFile /\ UNCHANGED notReqVars
    \/ SaveFile /\ UNCHANGED notReqVars
    \/ DecodeVideo /\ UNCHANGED notReqVars
    \/ AggregateVideo /\ UNCHANGED notReqVars
    \/ GateVideo /\ UNCHANGED notReqVars
    \/ MetricsVideo /\ UNCHANGED notReqVars
    \/ ThumbnailVideo /\ UNCHANGED notReqVars
    \/ LoopExit /\ UNCHANGED notReqVars
    \/ ExceptBranch /\ UNCHANGED notReqVars
    \/ FinallyBranch /\ UNCHANGED notReqVars
    \/ ReturnResponse /\ UNCHANGED notReqVars

Spec == Init /\ [][Next]_vars

-----------------------------------------------------------------------------
(* The precondition checks on a wide set of angle strings *)

\* ",".join(tokens)
RECURSIVE Join(_)
Join(tokens) ==
    IF Len(tokens) = 1 THEN tokens[1]
    ELSE tokens[1] \o <<",">> \o Join(Tail(tokens))

RawTokens ==
    {<<"front">>, <<"left">>, <<" ", "right", " ">>, <<"back", " ">>, <<"Front">>}

ExtraStrings ==
    {<<>>, <<" ">>, <<"front", ",">>, <<"front", " ", "left">>,
     <<" ", " ", "back">>, <<"up", ",", "left">>}

PreStrings ==
    {Join(tokens) : tokens \in SeqsOf(RawTokens, 1, MaxTokens)} \cup ExtraStrings

DefaultKind == [ext |-> ".mp4", size |-> Some(1024)]

InitPre ==
    /\ MEDIAPIPE_AVAILABLE = TRUE
    /\ videos \in {Uploads([k \in 1..n |-> DefaultKind]) : n \in 0..MaxVideos}
    /\ video_angle \in PreStrings
    /\ ReqStart
    /\ AggIdle
    /\ GeoIdle
    /\ EngIdle
    /\ DecIdle

NextPre == CheckPreconditions /\ UNCHANGED notReqVars

SpecPre == InitPre /\ [][NextPre]_vars

-----------------------------------------------------------------------------
(* The aggregator and the gate on drawn Skeletons *)

Pt(x, y, confidence) == Some(LandmarkPoint(Tenths(x), Tenths(y), confidence))

\* left_shoulder of a frame
ChoicesA ==
    {None,
     Pt(2, 3, None),
     Pt(4, 4, Some(Tenths(5))),
     Pt(4, 6, Some(Tenths(6))),
     Pt(8, 2, Some(Tenths(9)))}

\* right_shoulder and left_hip of a frame
ChoicesB == {None, Pt(5, 5, Some(RZero)), Pt(3, 7, Some(Tenths(9)))}

\* every other slot of a frame
ChoicesE == {None, Pt(6, 1, Some(Tenths(7)))}

Frame(a, b, e) ==
    [s \in Slots |->
        CASE s = "left_shoulder" -> a
          [] s \in {"right_shoulder", "left_hip"} -> b
          [] OTHER -> e]

FrameChoices == {Frame(a, b, e) : a \in ChoicesA, b \in ChoicesB, e \in ChoicesE}

\* a torso slot of a Skeleton handed to the gate directly
ChoicesG ==
    {None,
     Pt(2, 3, None),
     Pt(5, 5, Some(RZero)),
     Pt(4, 4, Some(Tenths(5))),
     Pt(4, 6, Some(Tenths(6)))}

Skeleton(ls, rs, lh, rh, e) ==
    [s \in Slots |->
        CASE s = "left_shoulder" -> ls
          [] s = "right_shoulder" -> rs
          [] s = "left_hip" -> lh
          [] s = "right_hip" -> rh
          [] OTHER -> e]

GateChoices ==
    {Skeleton(ls, rs, lh, rh, e) :
        ls \in ChoicesG, rs \in ChoicesG, lh \in ChoicesG, rh \in ChoicesG, e \in ChoicesE}

ReqIdle ==
    /\ pc = "idle"
    /\ videos = <<>>
    /\ video_angle = <<>>
    /\ video_angles = <<>>
    /\ services = FALSE
    /\ idx = 0
    /\ analyses = <<>>
    /\ temp_files = <<>>
    /\ disk = {}
    /\ cur = NoCur
    /\ exc = None
    /\ status = 0
    /\ response = None
    /\ fault = "none"
    /\ log = <<>>

InitAgg ==
    /\ MEDIAPIPE_AVAILABLE = TRUE
    /\ ReqIdle
    /\ agg_pc = "input"
    /\ landmarks_list = <<>>
    /\ avg_landmarks = None
    /\ gate_input = None
    /\ gate_result = None
    /\ GeoIdle
    /\ EngIdle
    /\ DecIdle

\* one more frame's Skeleton is handed over
AggAppendFrame ==
    /\ agg_pc = "input"
    /\ Len(landmarks_list) < MaxFrames
    /\ \E frame \in FrameChoices : landmarks_list' = Append(landmarks_list, frame)
    /\ UNCHANGED <<agg_pc, avg_landmarks, gate_input, gate_result>>

AggAverage ==
    /\ agg_pc = "input"
    /\ avg_landmarks' = Some(get_average_landmarks(landmarks_list, fp_ulp))
    /\ agg_pc' = "averaged"
    /\ UNCHANGED <<landmarks_list, gate_input, gate_result>>

\* the gate on the aggregated Skeleton, as _process_single_video applies it
AggValidate ==
    /\ agg_pc = "averaged"
    /\ gate_input' = avg_landmarks
    /\ gate_result' = Some(validate_pose_detection(Val(avg_landmarks)))
    /\ agg_pc' = "gated"
    /\ UNCHANGED <<landmarks_list, avg_landmarks>>

\* the gate on an arbitrary Skeleton
AggValidateDirect ==
    /\ agg_pc = "input"
    /\ landmarks_list = <<>>
    /\ \E landmarks \in GateChoices :
        /\ gate_input' = Some(landmarks)
        /\ gate_result' = Some(validate_pose_detection(landmarks))
    /\ agg_pc' = "gated"
    /\ UNCHANGED <<landmarks_list, avg_landmarks>>

NextAgg ==
    \/ AggAppendFrame /\ UNCHANGED notAggVars
    \/ AggAverage /\ UNCHANGED notAggVars
    \/ AggValidate /\ UNCHANGED notAggVars
    \/ AggValidateDirect /\ UNCHANGED notAggVars

SpecAgg == InitAgg /\ [][NextAgg]_vars

-----------------------------------------------------------------------------
(* The geometry kernel on drawn points *)

\* the small coordinate: its square is below FloatMinPositive, and its slope
\* over the full width 1 is below HalfUlp360Slope
SmallCoord == Rat(1, 128)

XCoords == {RZero, SmallCoord, Rat(1, 2), ROne}
YCoords == {RZero, SmallCoord, Rat(1, 2)}

\* LandmarkPoint(x=x, y=y)
Point(x, y) == Some(LandmarkPoint(x, y, None))

\* point1, point2, point3 of the three kernel functions
PointChoices == {None} \cup {Point(x, y) : x \in XCoords, y \in YCoords}

\* reference_right of calculate_width_ratio
RefChoices == {None, Point(RZero, RZero), Point(SmallCoord, RZero), Point(Rat(1, 2), Rat(1, 2))}

UlpChoices == {-1, 0, 1}

InitGeo ==
    /\ MEDIAPIPE_AVAILABLE = TRUE
    /\ ReqIdle
    /\ AggIdle
    /\ EngIdle
    /\ DecIdle
    /\ geo_pc = "ready"
    /\ fp_ulp \in UlpChoices
    /\ geo_points \in {<<p1, p2, p3, p4>> :
            p1 \in PointChoices, p2 \in PointChoices, p3 \in PointChoices,
            p4 \in RefChoices}
    /\ geo_angle = None
    /\ geo_vector = None
    /\ geo_ratio = None

GeoAngle ==
    /\ geo_pc = "ready"
    /\ geo_angle' = calculate_angle(geo_points[1], geo_points[2], geo_points[3], fp_ulp)
    /\ geo_pc' = "angle"
    /\ UNCHANGED <<fp_ulp, geo_points, geo_vector, geo_ratio>>

GeoVector ==
    /\ geo_pc = "ready"
    /\ geo_vector' = calculate_alignment_vector(geo_points[1], geo_points[2])
    /\ geo_pc' = "vector"
    /\ UNCHANGED <<fp_ulp, geo_points, geo_angle, geo_ratio>>

GeoRatio ==
    /\ geo_pc = "ready"
    /\ geo_ratio' = calculate_width_ratio(geo_points[1], geo_points[2],
                                          geo_points[3], geo_points[4], fp_ulp)
    /\ geo_pc' = "ratio"
    /\ UNCHANGED <<fp_ulp, geo_points, geo_angle, geo_vector>>

notGeoVars == <<MEDIAPIPE_AVAILABLE, reqVars, aggVars, engVars, decVars>>

NextGeo ==
    \/ GeoAngle /\ UNCHANGED notGeoVars
    \/ GeoVector /\ UNCHANGED notGeoVars
    \/ GeoRatio /\ UNCHANGED notGeoVars

SpecGeo == InitGeo /\ [][NextGeo]_vars

-----------------------------------------------------------------------------
(* The metrics engine and the gate on drawn Skeletons *)

\* a keypoint on the grid of sixteenths, detected with confidence c
Key(x, y, c) == Some(LandmarkPoint(Rat(x, 16), Rat(y, 16), Some(Tenths(c))))

\* a left ear a small step to the right of the left shoulder
EarBesideShoulder ==
    Some(LandmarkPoint(RAdd(Rat(4, 16), SmallCoord), Rat(4, 16), Some(Tenths(9))))

\* a right hip one thirty-second to the right of the left hip
HipBesideHip == Some(LandmarkPoint(Rat(11, 32), Rat(8, 16), Some(Tenths(9))))

\* elbow and wrist of one arm
LeftArms == {<<None, None>>, <<Key(3, 6, 8), None>>, <<Key(3, 6, 8), Key(2, 8, 7)>>}
RightArms == {<<None, None>>, <<Key(9, 6, 8), None>>, <<Key(9, 6, 8), Key(10, 8, 7)>>}

EngineSkeletons ==
    {[s \in Slots |->
        CASE s = "left_ear"       -> le
          [] s = "right_ear"      -> re
          [] s = "left_shoulder"  -> ls
          [] s = "right_shoulder" -> rs
          [] s = "left_elbow"     -> la[1]
          [] s = "left_wrist"     -> la[2]
          [] s = "right_elbow"    -> ra[1]
          [] s = "right_wrist"    -> ra[2]
          [] s = "left_hip"       -> lh
          [] s = "right_hip"      -> rh
          [] s = "left_knee"      -> lk
          [] s = "right_knee"     -> rk
          [] s = "left_ankle"     -> ln
          [] s = "right_ankle"    -> rn
          [] OTHER                -> None] :
        le \in {None, Key(4, 2, 8), EarBesideShoulder},
        re \in {None, Key(8, 2, 8)},
        ls \in {None, Key(4, 4, 9)},
        rs \in {None, Key(8, 4, 9), Key(12, 5, 9), Key(8, 4, 4)},
        la \in LeftArms,
        ra \in RightArms,
        lh \in {None, Key(5, 8, 9)},
        rh \in {None, HipBesideHip, Key(7, 8, 9)},
        lk \in {None, Key(5, 12, 8)},
        rk \in {None, Key(7, 12, 8)},
        ln \in {None, Key(5, 15, 7)},
        rn \in {None, Key(7, 15, 7)}}

InitEng ==
    /\ MEDIAPIPE_AVAILABLE = TRUE
    /\ ReqIdle
    /\ AggIdle
    /\ DecIdle
    /\ geo_pc = "idle"
    /\ fp_ulp \in UlpChoices
    /\ geo_points = <<>>
    /\ geo_angle = None
    /\ geo_vector = None
    /\ geo_ratio = None
    /\ eng_pc = "ready"
    /\ eng_landmarks \in {Some(l) : l \in EngineSkeletons}
    /\ eng_accepted = None
    /\ eng_joint_angles = None
    /\ eng_alignment_vectors = None
    /\ eng_symmetry = None

\* pose_estimator.validate_pose_detection(landmarks)
EngGate ==
    /\ eng_pc = "ready"
    /\ eng_accepted' = Some(validate_pose_detection(Val(eng_landmarks)))
    /\ eng_pc' = "gated"
    /\ UNCHANGED <<eng_landmarks, eng_joint_angles, eng_alignment_vectors, eng_symmetry>>

\* angle_calculator.calculate_joint_angles(landmarks)
EngJointAngles ==
    /\ eng_pc = "gated"
    /\ eng_joint_angles' = calculate_joint_angles(Val(eng_landmarks), fp_ulp)
    /\ eng_pc' = "angles"
    /\ UNCHANGED <<eng_landmarks, eng_accepted, eng_alignment_vectors, eng_symmetry>>

\* angle_calculator.calculate_alignment_vectors(landmarks)
EngAlignmentVectors ==
    /\ eng_pc = "angles"
    /\ eng_alignment_vectors' = calculate_alignment_vectors(Val(eng_landmarks))
    /\ eng_pc' = "vectors"
    /\ UNCHANGED <<eng_landmarks, eng_accepted, eng_joint_angles, eng_symmetry>>

\* angle_calculator.calculate_symmetry(landmarks); "raised" records that
\* the Symmetry constructor raised
EngSymmetry ==
    /\ eng_pc = "vectors"
    /\ eng_symmetry' = calculate_symmetry(Val(eng_landmarks), fp_ulp)
    /\ eng_pc' = IF IsNone(calculate_symmetry(Val(eng_landmarks), fp_ulp)) THEN "raised"
                 ELSE "done"
    /\ UNCHANGED <<eng_landmarks, eng_accepted, eng_joint_angles, eng_alignment_vectors>>

notEngVars == <<MEDIAPIPE_AVAILABLE, reqVars, aggVars, geoVars, decVars>>

NextEng ==
    \/ EngGate /\ UNCHANGED notEngVars
    \/ EngJointAngles /\ UNCHANGED notEngVars
    \/ EngAlignmentVectors /\ UNCHANGED notEngVars
    \/ EngSymmetry /\ UNCHANGED notEngVars

SpecEng == InitEng /\ [][NextEng]_vars

-----------------------------------------------------------------------------
(* The frame loop of process_video, one cap.read() at a time *)

\* the videos handed to process_video
DecodeVideos ==
    {[opened |-> FALSE, nframes |-> FRAME_SAMPLE_RATE, det |-> "full"],
     [opened |-> TRUE, nframes |-> 0, det |-> "full"],
     [opened |-> TRUE, nframes |-> FRAME_SAMPLE_RATE - 1, det |-> "lowhips"],
     [opened |-> TRUE, nframes |-> 2 * FRAME_SAMPLE_RATE, det |-> "flicker"],
     [opened |-> TRUE, nframes |-> 3 * FRAME_SAMPLE_RATE, det |-> "throws"],
     [opened |-> TRUE, nframes |-> LongVideo, det |-> "full"],
     [opened |-> TRUE, nframes |-> LongVideo, det |-> "none"]}

InitDec ==
    /\ MEDIAPIPE_AVAILABLE \in BOOLEAN
    /\ ReqIdle
    /\ AggIdle
    /\ GeoIdle
    /\ EngIdle
    /\ dec_pc = "open"
    /\ dec_video \in {Some(v) : v \in DecodeVideos}
    /\ dec_frame_count = 0
    /\ dec_landmarks_list = <<>>
    /\ dec_processed_frames = 0
    /\ dec_detections = 0
    /\ dec_released = FALSE

\* pose_estimator.py:85-91
DecOpen ==
    /\ dec_pc = "open"
    /\ dec_pc' = IF Val(dec_video).opened THEN "read" ELSE "raised"
    /\ dec_landmarks_list' = <<>>
    /\ dec_frame_count' = 0
    /\ dec_processed_frames' = 0
    /\ UNCHANGED <<dec_video, dec_detections, dec_released>>

\* the cap test with > in place of >=
DecRead_CapExclusive ==
    /\ dec_pc = "read"
    /\ IF dec_frame_count >= Val(dec_video).nframes
       THEN /\ dec_pc' = "release"
            /\ UNCHANGED <<dec_frame_count, dec_landmarks_list, dec_processed_frames,
                           dec_detections>>
       ELSE LET fc == dec_frame_count + 1
                sampled == fc % FRAME_SAMPLE_RATE = 0
                landmarks == IF sampled THEN process_frame(Val(dec_video).det, fc)
                             ELSE None
                pf == IF Present(landmarks) THEN dec_processed_frames + 1
                      ELSE dec_processed_frames
            IN  /\ dec_frame_count' = fc
                /\ dec_detections' = IF sampled THEN dec_detections + 1
                                     ELSE dec_detections
                /\ dec_landmarks_list' = IF Present(landmarks)
                                         THEN Append(dec_landmarks_list, Val(landmarks))
                                         ELSE dec_landmarks_list
                /\ dec_processed_frames' = pf
                /\ dec_pc' = IF IsRaise(landmarks) THEN "release_raising"
                             ELSE IF pf > MaxProcessedFrames THEN "release"
                             ELSE "read"
    /\ UNCHANGED <<dec_video, dec_released>>

\* pose_estimator.py:95-110: one pass through the body of `while True`; an
\* exception of process_frame leaves the loop for the finally clause
DecRead ==
    /\ dec_pc = "read"
    /\ IF dec_frame_count >= Val(dec_video).nframes
       THEN \* ret is False
            /\ dec_pc' = "release"
            /\ UNCHANGED <<dec_frame_count, dec_landmarks_list, dec_processed_frames,
                           dec_detections>>
       ELSE LET fc == dec_frame_count + 1
                sampled == fc % FRAME_SAMPLE_RATE = 0
                landmarks == IF sampled THEN process_frame(Val(dec_video).det, fc)
                             ELSE None
                pf == IF Present(landmarks) THEN dec_processed_frames + 1
                      ELSE dec_processed_frames
            IN  /\ dec_frame_count' = fc
                /\ dec_detections' = IF sampled THEN dec_detections + 1
                                     ELSE dec_detections
                /\ dec_landmarks_list' = IF Present(landmarks)
                                         THEN Append(dec_landmarks_list, Val(landmarks))
                                         ELSE dec_landmarks_list
                /\ dec_processed_frames' = pf
                /\ dec_pc' = IF IsRaise(landmarks) THEN "release_raising"
                             ELSE IF pf >= MaxProcessedFrames THEN "release"
                             ELSE "read"
    /\ UNCHANGED <<dec_video, dec_released>>

\* a finally clause that is skipped when an exception is in flight
DecRelease_OnlyOnNormalExit ==
    /\ dec_pc \in {"release", "release_raising"}
    /\ dec_released' = (dec_pc = "release")
    /\ dec_pc' = IF dec_pc = "release" THEN "fallback" ELSE "raised"
    /\ UNCHANGED <<dec_video, dec_frame_count, dec_landmarks_list,
                   dec_processed_frames, dec_detections>>

\* pose_estimator.py:112-113: finally releases the handle, then control
\* goes on to the fallback or the exception in flight leaves process_video
DecRelease ==
    /\ dec_pc \in {"release", "release_raising"}
    /\ dec_released' = TRUE
    /\ dec_pc' = IF dec_pc = "release" THEN "fallback" ELSE "raised"
    /\ UNCHANGED <<dec_video, dec_frame_count, dec_landmarks_list,
                   dec_processed_frames, dec_detections>>

\* a return without the fallback of lines 115-118
DecReturn_NoFallback ==
    /\ dec_pc = "fallback"
    /\ dec_pc' = "done"
    /\ UNCHANGED <<dec_video, dec_frame_count, dec_landmarks_list,
                   dec_processed_frames, dec_detections, dec_released>>

\* pose_estimator.py:115-120
DecReturn ==
    /\ dec_pc = "fallback"
    /\ IF dec_landmarks_list = <<>>
       THEN /\ dec_landmarks_list' = <<_generate_mock_landmarks>>
            /\ dec_processed_frames' = 1
       ELSE UNCHANGED <<dec_landmarks_list, dec_processed_frames>>
    /\ dec_pc' = "done"
    /\ UNCHANGED <<dec_video, dec_frame_count, dec_detections, dec_released>>

notDecVars == <<MEDIAPIPE_AVAILABLE, reqVars, aggVars, geoVars, engVars>>

NextDec ==
    \/ DecOpen /\ UNCHANGED notDecVars
    \/ DecRead /\ UNCHANGED notDecVars
    \/ DecRelease /\ UNCHANGED notDecVars
    \/ DecReturn /\ UNCHANGED notDecVars

SpecDec == InitDec /\ [][NextDec]_vars

\* process_video is straight-line sequential code: whenever it has a next
\* step, the step is taken
SpecDecLive == SpecDec /\ WF_vars(NextDec)

-----------------------------------------------------------------------------
(* The aggregator on repeated and mixed samples, with the rounding of the mean *)

MaxSamples == 3

\* a detection whose torso points are short floats, everything else absent
ShortFrame ==
    [s \in Slots |->
        CASE s = "left_shoulder"  -> Some(LandmarkPoint(Rat(1, 4), Rat(1, 4), Some(Rat(3, 4))))
          [] s = "right_shoulder" -> Some(LandmarkPoint(ROne, RZero, Some(ROne)))
          [] s = "left_hip"       -> Some(LandmarkPoint(Rat(3, 8), Rat(1, 2), Some(Rat(513, 1024))))
          [] s = "right_hip"      -> Some(LandmarkPoint(Rat(5, 8), Rat(1, 2), None))
          [] OTHER                -> None]

SampleFrames ==
    {_generate_mock_landmarks,
     TorsoOnly(42, 58, 45, 55, 40),
     TorsoOnly(40, 60, 44, 56, 90),
     TorsoOnly(42, 58, 45, 55, 50),
     ShortFrame}

InitSamples ==
    /\ MEDIAPIPE_AVAILABLE = TRUE
    /\ ReqIdle
    /\ agg_pc = "input"
    /\ landmarks_list \in SeqsOf(SampleFrames, 1, MaxSamples)
    /\ avg_landmarks = None
    /\ gate_input = None
    /\ gate_result = None
    /\ geo_pc = "idle"
    /\ fp_ulp \in UlpChoices
    /\ geo_points = <<>>
    /\ geo_angle = None
    /\ geo_vector = None
    /\ geo_ratio = None
    /\ EngIdle
    /\ DecIdle

NextSamples ==
    \/ AggAverage /\ UNCHANGED notAggVars
    \/ AggValidate /\ UNCHANGED notAggVars

SpecSamples == InitSamples /\ [][NextSamples]_vars

-----------------------------------------------------------------------------
(* process_video at both grains: inside a request, and step by step *)

InitReqDec == Init \/ InitDec

NextReqDec == Next \/ NextDec

SpecReqDec == InitReqDec /\ [][NextReqDec]_vars

-----------------------------------------------------------------------------
(* calculate_symmetry inside a request, and called on a Skeleton directly *)

\* angle_calculator.calculate_symmetry(landmarks) as the only call made on
\* the Skeleton (test_symmetry_fix.py:57-72); "raised" records that the
\* Symmetry constructor raised
EngSymmetryDirect ==
    /\ eng_pc = "ready"
    /\ \E symmetry \in {calculate_symmetry(Val(eng_landmarks), fp_ulp)} :
        /\ eng_symmetry' = symmetry
        /\ eng_pc' = IF IsNone(symmetry) THEN "raised" ELSE "done"
    /\ UNCHANGED <<eng_landmarks, eng_accepted, eng_joint_angles, eng_alignment_vectors>>

InitReqSym == Init \/ InitEng

NextReqSym ==
    \/ Next
    \/ EngSymmetryDirect /\ UNCHANGED notEngVars

SpecReqSym == InitReqSym /\ [][NextReqSym]_vars

-----------------------------------------------------------------------------
(* What the claims say, stated on the request and on the Skeletons *)

Range(q) == {q[k] : k \in 1..Len(q)}

AngleWords == {"front", "left", "right", "back"}

\* the number of comma-separated tokens of the string s
NumTokens(s) == Cardinality({p \in 1..Len(s) : s[p] = ","}) + 1

\* the positions of the words (neither "," nor whitespace) of the k-th token
WordPositions(s, k) ==
    {p \in 1..Len(s) :
        /\ s[p] \notin {",", " "}
        /\ Cardinality({q \in 1..p : s[q] = ","}) = k - 1}

\* the k-th token, trimmed, is one of front/left/right/back
DeclaredValid(s, k) ==
    /\ Cardinality(WordPositions(s, k)) = 1
    /\ \A p \in WordPositions(s, k) : s[p] \in AngleWords

DeclaredAngle(s, k) == s[CHOOSE p \in WordPositions(s, k) : TRUE]

\* n videos with the angle string s violate a precondition
Malformed(n, s) ==
    \/ n # NumTokens(s)
    \/ n = 0
    \/ n > 4
    \/ \E k \in 1..NumTokens(s) : ~DeclaredValid(s, k)
    \/ \E j, k \in 1..NumTokens(s) : j # k /\ DeclaredAngle(s, j) = DeclaredAngle(s, k)

NoWorkDone ==
    /\ services = FALSE
    /\ disk = {}
    /\ log = <<>>
    /\ temp_files = <<>>
    /\ analyses = <<>>
    /\ cur = NoCur

Thm_C2_RejectionBeforeAnyWork ==
    /\ Malformed(Len(videos), video_angle) => NoWorkDone
    /\ fault \in PreconditionFaults => NoWorkDone /\ pc = "done" /\ status = 400
    /\ (pc = "done" /\ Malformed(Len(videos), video_angle)) =>
            status = 400 /\ fault \in PreconditionFaults

Witness_C2_DuplicateRejected ==
    /\ pc = "done"
    /\ fault = "duplicate_angle"
    /\ Len(videos) = 2
    /\ NoWorkDone

\* C3: a body is returned only when every video of the batch went through
\* all its stages, and a request in which some video failed ends without a
\* body and with a status other than 200.
Thm_C3_AllOrNothing ==
    /\ IsSome(response) =>
        /\ fault = "none"
        /\ status = 200
        /\ Len(Val(response).analyses) = Len(videos)
        /\ \A k \in 1..Len(videos) : <<"thumbnail", k>> \in Range(log)
    /\ (pc = "done" /\ fault # "none") => IsNone(response) /\ status # 200

Witness_C3_LaterVideoFails ==
    /\ pc = "done"
    /\ fault = "gate_rejected"
    /\ Len(analyses) = 2
    /\ IsNone(response)

Cex_C5_NoThumbnailAfterFailure ==
    (pc = "done" /\ status # 200) =>
        \A k \in 1..Len(videos) : ThumbnailPath(k) \notin disk

\* C6: when a video is rejected for its extension or its size, no video of
\* the batch has been saved, decoded or analysed.
Cex_C6_FileChecksBeforeAnyWork ==
    fault \in {"invalid_format", "file_too_large"} =>
        \A e \in Range(log) : e[1] = "validate"

ShapeFaults == PreconditionFaults \cup {"invalid_format", "file_too_large"}

ProcessingFaults ==
    {"save_failed", "decode_failed", "gate_rejected", "metrics_failed", "thumbnail_failed"}

\* C7: a request-shape violation ends with status 400 or 413, a failure
\* during processing with status 422, and neither returns a body.
Cex_C7_ErrorKindsDistinct ==
    pc = "done" =>
        /\ fault \in ShapeFaults => status \in {400, 413}
        /\ fault \in ProcessingFaults => status = 422
        /\ fault # "none" => IsNone(response)

\* C8: the returned list has one analysis per video, in input order: the
\* k-th was computed from the k-th upload and carries the k-th declared
\* angle, in video_angle and in metadata.video_angle.
Thm_C8_AnalysesInInputOrder ==
    IsSome(response) =>
        LET a == Val(response).analyses
        IN  /\ Len(a) = Len(videos)
            /\ \A k \in 1..Len(a) :
                /\ a[k].upload = videos[k].name
                /\ a[k].video_path = UploadPath(k)
                /\ a[k].video_angle = DeclaredAngle(video_angle, k)
                /\ a[k].metadata.video_angle = DeclaredAngle(video_angle, k)

Witness_C8_ThreeAnalyses ==
    /\ IsSome(response)
    /\ Len(Val(response).analyses) = 3
    /\ video_angle = <<"back", ",", "left", ",", "right">>

TorsoSlots == {"left_shoulder", "right_shoulder", "left_hip", "right_hip"}

\* the point o is present with a confidence that is present and > 0.5
Counts(o) ==
    /\ o # <<>>
    /\ o[1].confidence # <<>>
    /\ 2 * o[1].confidence[1].n > o[1].confidence[1].d

NumCounted(landmarks) == Cardinality({s \in TorsoSlots : Counts(landmarks[s])})

\* the Skeleton with every slot outside the torso four cleared
TorsoOf(landmarks) ==
    [s \in Slots |-> IF s \in TorsoSlots THEN landmarks[s] ELSE None]

\* C9: the gate accepts exactly when at least 3 of the 4 torso slots are
\* present with confidence > 0.5, whatever the other 13 slots hold.
Thm_C9_GateThreeOfFour ==
    IsSome(gate_result) =>
        /\ Val(gate_result) = (NumCounted(Val(gate_input)) >= 3)
        /\ Val(gate_result) = validate_pose_detection(TorsoOf(Val(gate_input)))

Witness_C9_ExactlyThreeAccepted ==
    /\ IsSome(gate_result)
    /\ Val(gate_result) = TRUE
    /\ NumCounted(Val(gate_input)) = 3
    /\ Val(gate_input)["right_hip"] = Pt(4, 4, Some(Tenths(5)))
    /\ Val(gate_input)["nose"] = None

Witness_C9_ExactlyTwoRejected ==
    /\ IsSome(gate_result)
    /\ Val(gate_result) = FALSE
    /\ NumCounted(Val(gate_input)) = 2
    /\ Val(gate_input)["left_hip"] = Pt(2, 3, None)

\* the frames in which slot s qualifies
Qualifying(s) == {k \in 1..Len(landmarks_list) : Counts(landmarks_list[k][s])}

RMulInt(a, k) == Rat(a.n * k, a.d)

RECURSIVE SampleSum(_, _, _)
SampleSum(Q, s, f) ==
    IF Q = {} THEN Rat(0, 1)
    ELSE LET k == CHOOSE j \in Q : TRUE
             p == landmarks_list[k][s][1]
             v == IF f = "x" THEN p.x ELSE IF f = "y" THEN p.y ELSE p.confidence[1]
         IN  RAdd(v, SampleSum(Q \ {k}, s, f))

SamePosition(p, q) == Val(p).x = Val(q).x /\ Val(p).y = Val(q).y

\* C14: calculate_angle returns absent exactly when one of its three points
\* is absent or an end point lies on the vertex; on every other input it
\* returns, without raising, a value between 0 and 180 degrees; and swapping
\* the two end points does not change the result.
Cex_C14_AngleAbsentIffDegenerate ==
    geo_pc = "angle" =>
        LET p1 == geo_points[1]
            p2 == geo_points[2]
            p3 == geo_points[3]
            degenerate ==
                \/ IsNone(p1) \/ IsNone(p2) \/ IsNone(p3)
                \/ SamePosition(p1, p2) \/ SamePosition(p3, p2)
        IN  /\ (geo_angle = None) <=> degenerate
            /\ ~degenerate =>
                /\ Present(geo_angle)
                /\ 0 <= Val(geo_angle).lo
                /\ Val(geo_angle).hi <= 180
            /\ geo_angle = calculate_angle(p3, p2, p1, fp_ulp)

\* C15: calculate_alignment_vector(a, b) returns absent exactly when a or b
\* is absent; otherwise dx = b.x - a.x, dy = b.y - a.y, the magnitude is not
\* negative, for a # b the angle is at least 0 and below 360 degrees (never
\* 360 itself), and the angle is 0 when b lies to the right of a at the
\* same height.
Cex_C15_VectorAngleBelow360 ==
    geo_pc = "vector" =>
        LET a == geo_points[1]
            b == geo_points[2]
        IN  /\ (geo_vector = None) <=> (IsNone(a) \/ IsNone(b))
            /\ (IsSome(a) /\ IsSome(b)) =>
                /\ Present(geo_vector)
                /\ Val(geo_vector).dx = RSub(Val(b).x, Val(a).x)
                /\ Val(geo_vector).dy = RSub(Val(b).y, Val(a).y)
                /\ ~RLt(Val(geo_vector).magnitude.sqrt_of, RZero)
                /\ ~SamePosition(a, b) =>
                    /\ 0 <= Val(geo_vector).angle_degrees.lo
                    /\ Val(geo_vector).angle_degrees.hi <= 360
                    /\ Val(geo_vector).angle_degrees.lo < 360
                /\ (Val(b).y = Val(a).y /\ RGt(Val(b).x, Val(a).x)) =>
                    /\ Val(geo_vector).angle_degrees.lo = 0
                    /\ Val(geo_vector).angle_degrees.hi = 0

\* the quotient q as a float division delivers it: q itself when q is an
\* exact double, otherwise q or a neighbouring double
FloatQuotients(q) ==
    IF ShortMantissa(q) THEN {q}
    ELSE {RAdd(q, Rat(u * RatioUlp.n, RatioUlp.d)) : u \in UlpChoices}

\* C16: calculate_width_ratio is absent whenever the reference pair has
\* equal x-coordinates and whenever one of the four points is absent; on
\* every other input it is the float quotient
\* |leftA.x - rightA.x| / |leftB.x - rightB.x|; and it never raises (no
\* division by zero).
Thm_C16_WidthRatioGuarded ==
    geo_pc = "ratio" =>
        LET absent == \E k \in 1..4 : IsNone(geo_points[k])
            zero_width == Val(geo_points[3]).x = Val(geo_points[4]).x
        IN  /\ ~IsRaise(geo_ratio)
            /\ (absent \/ zero_width) => geo_ratio = None
            /\ ~(absent \/ zero_width) =>
                /\ Present(geo_ratio)
                /\ Val(geo_ratio) \in FloatQuotients(
                        RDiv(RAbsDiff(Val(geo_points[1]).x, Val(geo_points[2]).x),
                             RAbsDiff(Val(geo_points[3]).x, Val(geo_points[4]).x)))

\* four present points whose reference pair has zero width and whose
\* measured pair has not
Witness_C16_ZeroWidthReference ==
    /\ geo_pc = "ratio"
    /\ \A k \in 1..4 : IsSome(geo_points[k])
    /\ Val(geo_points[3]).x = Val(geo_points[4]).x
    /\ Val(geo_points[1]).x # Val(geo_points[2]).x
    /\ geo_ratio = None

\* the positions of the engine at which each result has been delivered
AnglesDelivered == eng_pc \in {"angles", "vectors", "done", "raised"}
VectorsDelivered == eng_pc \in {"vectors", "done", "raised"}
SymmetryDelivered == eng_pc \in {"done", "raised"}

\* C11: on every Skeleton each of calculate_joint_angles,
\* calculate_alignment_vectors and calculate_symmetry returns its result
\* object; none of them raises.
Cex_C11_EngineNeverRaises ==
    /\ AnglesDelivered => Present(eng_joint_angles)
    /\ VectorsDelivered => Present(eng_alignment_vectors)
    /\ SymmetryDelivered => (eng_pc = "done" /\ Present(eng_symmetry))

\* the keypoints that define a joint angle, vertex in the middle
DefiningSlots(f) ==
    CASE f = "neck_angle"           -> <<"left_ear", "left_shoulder", "left_hip">>
      [] f = "left_shoulder_angle"  -> <<"left_ear", "left_shoulder", "left_elbow">>
      [] f = "right_shoulder_angle" -> <<"right_ear", "right_shoulder", "right_elbow">>
      [] f = "left_elbow_angle"     -> <<"left_shoulder", "left_elbow", "left_wrist">>
      [] f = "right_elbow_angle"    -> <<"right_shoulder", "right_elbow", "right_wrist">>
      [] f = "left_hip_angle"       -> <<"left_shoulder", "left_hip", "left_knee">>
      [] f = "right_hip_angle"      -> <<"right_shoulder", "right_hip", "right_knee">>
      [] f = "left_knee_angle"      -> <<"left_hip", "left_knee", "left_ankle">>
      [] f = "right_knee_angle"     -> <<"right_hip", "right_knee", "right_ankle">>
      [] f = "spine_angle"          -> <<"left_shoulder", "right_shoulder", "left_hip",
                                         "right_hip", "left_knee", "right_knee">>

JointAngleNames ==
    {"neck_angle", "spine_angle", "left_shoulder_angle", "right_shoulder_angle",
     "left_elbow_angle", "right_elbow_angle", "left_hip_angle", "right_hip_angle",
     "left_knee_angle", "right_knee_angle"}

\* the midpoint of two present keypoints, as a position
MidPosition(p, q) ==
    Some([x |-> RDivInt(RAdd(Val(p).x, Val(q).x), 2),
          y |-> RDivInt(RAdd(Val(p).y, Val(q).y), 2)])

\* the three positions a joint angle of Skeleton l is measured on: the
\* defining keypoints, for the spine the left/right midpoints
AnglePositions(l, f) ==
    LET d == DefiningSlots(f)
    IN  IF f = "spine_angle"
        THEN <<MidPosition(l[d[1]], l[d[2]]), MidPosition(l[d[3]], l[d[4]]),
               MidPosition(l[d[5]], l[d[6]])>>
        ELSE <<l[d[1]], l[d[2]], l[d[3]]>>

\* the joint angle f of Skeleton l can be measured
Measurable(l, f) ==
    /\ \A k \in 1..Len(DefiningSlots(f)) : IsSome(l[DefiningSlots(f)[k]])
    /\ ~SamePosition(AnglePositions(l, f)[1], AnglePositions(l, f)[2])
    /\ ~SamePosition(AnglePositions(l, f)[3], AnglePositions(l, f)[2])

\* Skeleton l with the keypoint s removed
Without(l, s) == [l EXCEPT ![s] = None]

\* C12: each of the ten joint angles is present exactly when all its
\* defining keypoints are present and neither end point lies on the vertex
\* (the spine on the left/right midpoints of shoulders, hips and knees), and
\* it does not change when a keypoint outside its defining set is removed.
Cex_C12_JointAnglePresentIffMeasurable ==
    eng_pc = "angles" =>
        /\ Present(eng_joint_angles)
        /\ \A f \in JointAngleNames :
            IsSome(Val(eng_joint_angles)[f]) <=> Measurable(Val(eng_landmarks), f)
        /\ \A s \in Slots :
            LET without == calculate_joint_angles(Without(Val(eng_landmarks), s), fp_ulp)
            IN  \A f \in JointAngleNames :
                    s \notin Range(DefiningSlots(f)) =>
                        Val(without)[f] = Val(eng_joint_angles)[f]

\* left_shoulder, right_shoulder and left_hip detected with confidence above
\* 0.5, right_hip absent
ThreeTorsoPoints(l) ==
    /\ \A s \in {"left_shoulder", "right_shoulder", "left_hip"} :
        /\ IsSome(l[s])
        /\ IsSome(Val(l[s]).confidence)
        /\ RGt(Val(Val(l[s]).confidence), Rat(1, 2))
    /\ IsNone(l["right_hip"])

\* C13: on a Skeleton with left_shoulder, right_shoulder and left_hip
\* present with confidence above 0.5 and right_hip absent, the gate accepts,
\* right_hip_angle and shoulder_width_ratio are absent, and
\* shoulder_height_diff is |left_shoulder.y - right_shoulder.y|.
Thm_C13_ThreeOfFourScenario ==
    ThreeTorsoPoints(Val(eng_landmarks)) =>
        LET ls == Val(Val(eng_landmarks)["left_shoulder"])
            rs == Val(Val(eng_landmarks)["right_shoulder"])
        IN  /\ eng_pc # "ready" => eng_accepted = Some(TRUE)
            /\ AnglesDelivered =>
                /\ Present(eng_joint_angles)
                /\ Val(eng_joint_angles).right_hip_angle = None
            /\ SymmetryDelivered =>
                /\ eng_pc = "done"
                /\ Val(eng_symmetry).shoulder_width_ratio = None
                /\ IsSome(Val(eng_symmetry).shoulder_height_diff)
                /\ ~RLt(Val(Val(eng_symmetry).shoulder_height_diff), RZero)
                /\ Val(Val(eng_symmetry).shoulder_height_diff)
                       \in {RSub(ls.y, rs.y), RSub(rs.y, ls.y)}

\* the scenario with shoulders at different heights, through all three
\* engine functions
Witness_C13_UnevenShoulders ==
    /\ eng_pc = "done"
    /\ IsSome(eng_landmarks)
    /\ ThreeTorsoPoints(Val(eng_landmarks))
    /\ Val(Val(eng_landmarks)["left_shoulder"]).y
           # Val(Val(eng_landmarks)["right_shoulder"]).y

\* the five keypoints of the left side the alignment vectors are drawn between
LeftChain == {"left_ear", "left_shoulder", "left_hip", "left_knee", "left_ankle"}

\* the two keypoints an alignment vector runs between
VectorEnds(v) ==
    CASE v = "ear_to_shoulder" -> <<"left_ear", "left_shoulder">>
      [] v = "shoulder_to_hip" -> <<"left_shoulder", "left_hip">>
      [] v = "hip_to_knee"     -> <<"left_hip", "left_knee">>
      [] v = "knee_to_ankle"   -> <<"left_knee", "left_ankle">>

VectorNames == {"ear_to_shoulder", "shoulder_to_hip", "hip_to_knee", "knee_to_ankle"}

\* Skeleton l with every keypoint outside the left chain removed, and with
\* every such keypoint put at one other place
LeftOnly(l) == [s \in Slots |-> IF s \in LeftChain THEN l[s] ELSE None]
OthersMoved(l) == [s \in Slots |-> IF s \in LeftChain THEN l[s] ELSE Key(1, 1, 9)]

\* C19: the four alignment vectors are functions of left_ear, left_shoulder,
\* left_hip, left_knee and left_ankle alone: removing or moving every other
\* keypoint of the Skeleton leaves the AlignmentVectors unchanged, and each
\* vector is absent exactly when one of its two left-side keypoints is.
Thm_C19_VectorsLeftSideOnly ==
    VectorsDelivered =>
        /\ Present(eng_alignment_vectors)
        /\ \A v \in VectorNames :
            (Val(eng_alignment_vectors)[v] = None) <=>
                \/ IsNone(Val(eng_landmarks)[VectorEnds(v)[1]])
                \/ IsNone(Val(eng_landmarks)[VectorEnds(v)[2]])
        /\ calculate_alignment_vectors(LeftOnly(Val(eng_landmarks))) = eng_alignment_vectors
        /\ calculate_alignment_vectors(OthersMoved(Val(eng_landmarks))) = eng_alignment_vectors

\* all four vectors delivered for a Skeleton that also has its right side
Witness_C19_FullSkeletonVectors ==
    /\ VectorsDelivered
    /\ Present(eng_alignment_vectors)
    /\ \A v \in VectorNames : IsSome(Val(eng_alignment_vectors)[v])
    /\ \A s \in {"right_ear", "right_shoulder", "right_hip", "right_knee", "right_ankle"} :
        IsSome(Val(eng_landmarks)[s])

\* C18: whatever the video's length and whatever the detector returns,
\* process_video decodes at most stride * cap frames and calls the detector
\* at most cap times.
Cex_C18_WorkBoundedByStrideAndCap ==
    /\ dec_frame_count <= FRAME_SAMPLE_RATE * MaxProcessedFrames
    /\ dec_detections <= MaxProcessedFrames

\* the stages of one video, in the claimed order
Stages == <<"save", "decode", "aggregate", "gate", "metrics", "thumbnail">>

\* the positions of the log before position j that hold the entry e
Earlier(e, j) == {i \in 1..(j - 1) : log[i] = e}

\* C20: in the record of executed stages, every stage of a video is preceded
\* by the previous stage of the same video (save, decode, aggregate, gate,
\* metrics, thumbnail), no stage runs twice, every stage of video k + 1 is
\* preceded by the thumbnail of video k, and metrics and thumbnail are run
\* only on a Skeleton the gate accepts: a video the gate rejected has neither
\* a thumbnail in the record nor one on disk.
Thm_C20_SequentialStagesInOrder ==
    /\ \A j \in 1..Len(log) :
        /\ Earlier(log[j], j) = {}
        /\ \A n \in 2..Len(Stages) :
            log[j][1] = Stages[n] => Earlier(<<Stages[n - 1], log[j][2]>>, j) # {}
        /\ log[j][2] > 1 => Earlier(<<"thumbnail", log[j][2] - 1>>, j) # {}
        /\ (log[j][1] \in {"metrics", "thumbnail"} /\ log[j][2] = idx) =>
            /\ IsSome(cur.landmarks)
            /\ validate_pose_detection(Val(cur.landmarks))
    /\ fault = "gate_rejected" =>
        /\ \A j \in 1..Len(log) :
            log[j] \notin {<<"metrics", idx>>, <<"thumbnail", idx>>}
        /\ ThumbnailPath(idx) \notin disk

\* the second video of a batch is rejected by the gate after the first went
\* through all its stages
Witness_C20_SecondVideoRejected ==
    /\ fault = "gate_rejected"
    /\ idx = 2
    /\ \E j \in 1..Len(log) : log[j] = <<"thumbnail", 1>>
    /\ \E j \in 1..Len(log) : log[j] = <<"gate", 2>>

\* the detections of the first n sampled frames of a video, in order
RECURSIVE Accepted(_, _)
Accepted(video, n) ==
    IF n = 0 THEN <<>>
    ELSE LET d == process_frame(video.det, n * FRAME_SAMPLE_RATE)
         IN  IF Present(d) THEN Append(Accepted(video, n - 1), Val(d))
             ELSE Accepted(video, n - 1)

InLoop == dec_pc \in {"read", "release", "release_raising"}

\* the state of the frame loop at every point of it
LoopInvariant ==
    InLoop =>
        LET video == Val(dec_video)
        IN  /\ dec_frame_count <= video.nframes
            /\ dec_detections = dec_frame_count \div FRAME_SAMPLE_RATE
            /\ dec_landmarks_list = Accepted(video, dec_detections)
            /\ dec_processed_frames = Len(dec_landmarks_list)
            /\ Len(dec_landmarks_list) <= MaxProcessedFrames
            /\ dec_pc = "read" => Len(dec_landmarks_list) < MaxProcessedFrames
            /\ dec_pc = "release" =>
                \/ Len(dec_landmarks_list) = MaxProcessedFrames
                \/ dec_frame_count = video.nframes

\* one pass of the loop reads one frame, or finds the decoder exhausted
LoopStep ==
    dec_pc = "read" =>
        LET video == Val(dec_video)
        IN  IF dec_frame_count = video.nframes
            THEN dec_pc' = "release" /\ dec_frame_count' = dec_frame_count
            ELSE /\ dec_frame_count' = dec_frame_count + 1
                 /\ dec_detections' # dec_detections <=>
                        dec_frame_count' % FRAME_SAMPLE_RATE = 0
                 /\ Len(dec_landmarks_list') > Len(dec_landmarks_list) =>
                        /\ dec_frame_count' % FRAME_SAMPLE_RATE = 0
                        /\ Present(process_frame(video.det, dec_frame_count'))

\* C21: the detector is called on exactly the frames whose 1-based index is
\* a multiple of the stride, the list holds exactly the detections of those
\* frames, the loop is left as soon as 50 Skeletons are accepted or the
\* decoder is exhausted, the list never holds more than 50, and
\* process_video terminates on every finite video.
Thm_C21_StrideCapTermination ==
    /\ []LoopInvariant
    /\ [][LoopStep]_vars
    /\ <>(dec_pc \in {"done", "raised"})

\* the cap is reached on frame 1500 of a longer video
Witness_C21_CapReachedBeforeEnd ==
    /\ dec_pc = "release"
    /\ Len(dec_landmarks_list) = MaxProcessedFrames
    /\ dec_frame_count = FRAME_SAMPLE_RATE * MaxProcessedFrames
    /\ dec_frame_count < Val(dec_video).nframes

\* slot s holds the same point, with a confidence above the threshold, in
\* every frame of landmarks_list
Constant(s) ==
    /\ landmarks_list # <<>>
    /\ PassesThreshold(landmarks_list[1][s])
    /\ \A k \in 1..Len(landmarks_list) : landmarks_list[k][s] = landmarks_list[1][s]

\* C22: a slot that holds the identical position and the identical
\* confidence (> 0.5) in each of the N >= 1 aggregated frames comes out with
\* exactly that position and exactly that confidence.
Cex_C22_MeanOfEqualSamplesExact ==
    IsSome(avg_landmarks) =>
        \A s \in Slots : Constant(s) => Val(avg_landmarks)[s] = landmarks_list[1][s]

\* process_video has been left: it returned or an exception left it
DecLeft == dec_pc \in {"done", "raised"}

\* a video no longer than those the requests of Spec are run on
AsInRequests(video) == video.nframes <= 3 * FRAME_SAMPLE_RATE

\* C23: a video that cannot be opened makes process_video raise with no
\* Skeleton produced and no detector call; whenever process_video raises
\* inside a request, the request ends with an error status, no body and no
\* later stage of any video; and once the video was opened, the capture
\* handle has been released whenever control is past the finally clause,
\* whether the loop ended, the cap was reached or the detector raised.  The
\* request calls process_video as one step: its outcome there is the outcome
\* of the stepped loop.
Thm_C23_DecodeFailureFatalHandleReleased ==
    /\ dec_pc # "idle" =>
        LET video == Val(dec_video)
        IN  /\ ~video.opened =>
                /\ dec_pc \in {"open", "raised"}
                /\ dec_landmarks_list = <<>>
                /\ dec_detections = 0
            /\ (video.opened /\ dec_pc \in {"fallback", "done", "raised"}) => dec_released
            /\ (video.opened /\ dec_pc = "done" /\ AsInRequests(video)) =>
                /\ IsNone(process_video(video).raised)
                /\ process_video(video).landmarks_list = dec_landmarks_list
                /\ process_video(video).processed_frames = dec_processed_frames
            /\ (video.opened /\ dec_pc = "raised" /\ AsInRequests(video)) =>
                IsSome(process_video(video).raised)
    /\ fault = "decode_failed" =>
        /\ IsNone(response)
        /\ status \in {0, 422}
        /\ pc = "done" => status = 422
        /\ cur.landmarks_list = <<>>
        /\ IsNone(cur.landmarks)
        /\ Len(analyses) = idx - 1
        /\ \A e \in Range(log) :
            /\ e[2] <= idx
            /\ e[2] = idx => e[1] \in {"validate", "save"}

\* the detector raised on the second sampled frame and the handle is released
Witness_C23_DetectorRaisedReleased ==
    /\ dec_pc = "raised"
    /\ Val(dec_video).opened
    /\ dec_released
    /\ Len(dec_landmarks_list) = 1
    /\ dec_frame_count = 2 * FRAME_SAMPLE_RATE

\* the code that produced the Skeletons aggregated so far in this request
AggregatedOrigins ==
    {a.origin : a \in Range(analyses)}
        \cup (IF IsSome(cur.landmarks) THEN {Val(cur.origin)} ELSE {})

\* C24: within one request, the Skeletons aggregated for all videos come
\* from one and the same detector implementation.
Cex_C24_OneImplementationPerBatch ==
    \A o1, o2 \in AggregatedOrigins : o1 = o2

\* a <= b on rationals
RLe(a, b) == ~RGt(a, b)

\* the values of field f ("x" or "y") of slot s in the frames that qualify
QualifyingValues(s, f) ==
    {IF f = "x" THEN Val(landmarks_list[k][s]).x ELSE Val(landmarks_list[k][s]).y :
        k \in Qualifying(s)}

\* v lies between the least and the greatest element of V
WithinRange(v, V) ==
    /\ \E lo \in V : RLe(lo, v)
    /\ \E hi \in V : RLe(v, hi)

PresentTorso(landmarks) == {s \in TorsoSlots : IsSome(landmarks[s])}

\* what holds of every aggregated Skeleton whatever the rounding: a present
\* slot has a confidence above 0.5 and coordinates in [0,1], and the gate
\* counts exactly the present torso slots
AggregatedSlotsQualify ==
    IsSome(avg_landmarks) =>
        /\ \A s \in Slots :
            LET out == Val(avg_landmarks)[s]
            IN  IsSome(out) =>
                    /\ IsSome(Val(out).confidence)
                    /\ RGt(Val(Val(out).confidence), ConfidenceThreshold)
                    /\ RLe(RZero, Val(out).x) /\ RLe(Val(out).x, ROne)
                    /\ RLe(RZero, Val(out).y) /\ RLe(Val(out).y, ROne)
        /\ IsSome(gate_result) =>
            Val(gate_result) = (Cardinality(PresentTorso(Val(gate_input))) >= MinEssential)

\* C25: in every aggregated Skeleton each present slot has a confidence
\* that is present and > 0.5 and has x and y between the least and the
\* greatest of its qualifying samples, hence in [0,1]; and the gate accepts
\* an aggregated Skeleton exactly when at least 3 of its 4 torso slots are
\* present.
Cex_C25_AggregatedWithinSamples ==
    /\ AggregatedSlotsQualify
    /\ IsSome(avg_landmarks) =>
        \A s \in Slots :
            LET out == Val(avg_landmarks)[s]
            IN  IsSome(out) =>
                    /\ WithinRange(Val(out).x, QualifyingValues(s, "x"))
                    /\ WithinRange(Val(out).y, QualifyingValues(s, "y"))

AllSlotsPresent(landmarks) == \A s \in Slots : IsSome(landmarks[s])

\* no sampled frame of the video yields a detection
NoDetection(video) == Accepted(video, video.nframes \div FRAME_SAMPLE_RATE) = <<>>

\* C26: process_video never returns an empty list: the returned count is the
\* length of the returned list and lies in 1..50.  When no sampled frame
\* produced a detection, and so for every video of fewer than 30 frames,
\* on which the detector is never called, the list is the one mock Skeleton
\* with all 17 slots present and the count is 1, and the gate accepts its
\* aggregate.  Inside a request the same holds of the list and the count
\* that _process_single_video receives.
Thm_C26_NeverEmptyMockFallback ==
    /\ dec_pc = "done" =>
        LET video == Val(dec_video)
        IN  /\ dec_landmarks_list # <<>>
            /\ dec_processed_frames = Len(dec_landmarks_list)
            /\ dec_processed_frames \in 1..MaxProcessedFrames
            /\ video.nframes < FRAME_SAMPLE_RATE => dec_detections = 0 /\ NoDetection(video)
            /\ NoDetection(video) =>
                /\ dec_landmarks_list = <<_generate_mock_landmarks>>
                /\ dec_processed_frames = 1
                /\ AllSlotsPresent(dec_landmarks_list[1])
                /\ \A u \in UlpChoices :
                    validate_pose_detection(get_average_landmarks(dec_landmarks_list, u))
    /\ IsSome(cur.origin) =>
        /\ cur.landmarks_list # <<>>
        /\ cur.frame_count = Len(cur.landmarks_list)
        /\ cur.frame_count \in 1..MaxProcessedFrames
        /\ (Val(cur.origin) = "mock" /\ MEDIAPIPE_AVAILABLE) =>
            /\ cur.landmarks_list = <<_generate_mock_landmarks>>
            /\ fault # "gate_rejected"

\* a video of 29 frames: the detector was never called, the mock is returned
Witness_C26_ShortVideoGetsMock ==
    /\ dec_pc = "done"
    /\ MEDIAPIPE_AVAILABLE
    /\ Val(dec_video).nframes = FRAME_SAMPLE_RATE - 1
    /\ dec_frame_count = FRAME_SAMPLE_RATE - 1
    /\ dec_detections = 0
    /\ dec_landmarks_list = <<_generate_mock_landmarks>>

\* the failures that can end the loop over the videos
LoopFaults == {"invalid_format", "file_too_large"} \cup ProcessingFaults

TorsoSkeleton(points) == Skeleton(points[1], points[2], points[3], points[4], None)

Width(p, q) == RAbsDiff(Val(p).x, Val(q).x)

\* when each of the two width ratios is absent, given the four torso points
WidthRatiosAbsentAsClaimed(shoulder, hip) ==
    LET absent == \E k \in 1..4 : IsNone(geo_points[k])
        ws == Width(geo_points[1], geo_points[2])
        wh == Width(geo_points[3], geo_points[4])
    IN  /\ ~IsRaise(shoulder) /\ ~IsRaise(hip)
        /\ absent => shoulder = None /\ hip = None
        /\ ~absent =>
            /\ shoulder = None <=> wh = RZero
            /\ hip = None <=> ws = RZero
            /\ (ws = RZero /\ wh # RZero) => shoulder = Some(RZero)
            /\ (wh = RZero /\ ws # RZero) => hip = Some(RZero)

\* C28 as stated: with the four torso points present and both widths
\* non-zero, shoulder_width_ratio and hip_width_ratio are exact reciprocals;
\* exactly one is absent iff exactly one width is zero, and then the other
\* is 0; both are absent iff both widths are zero or a point is absent.
Cex_C28_WidthRatiosExactReciprocals ==
    geo_pc = "ratio" =>
        LET L == TorsoSkeleton(geo_points)
            shoulder == _calculate_shoulder_width_ratio(L, fp_ulp)
            hip == _calculate_hip_width_ratio(L, fp_ulp)
        IN  /\ WidthRatiosAbsentAsClaimed(shoulder, hip)
            /\ (Present(shoulder) /\ Present(hip)) =>
                Val(hip) = RDiv(ROne, Val(shoulder))

\* C28, amended: with the four torso points present and both widths
\* non-zero, both ratios are present and each is the float quotient of the
\* two widths, shoulder width / hip width and hip width / shoulder width,
\* rounded on its own: they are reciprocals up to that rounding, and both
\* are exactly 1 when the widths are equal.  Exactly one is absent iff
\* exactly one width is zero, and then the other is 0; both are absent iff
\* both widths are zero or a point is absent.
Thm_C28_WidthRatiosReciprocalUpToRounding ==
    geo_pc = "ratio" =>
        LET L == TorsoSkeleton(geo_points)
            shoulder == _calculate_shoulder_width_ratio(L, fp_ulp)
            hip == _calculate_hip_width_ratio(L, fp_ulp)
        IN  /\ geo_ratio = shoulder
            /\ WidthRatiosAbsentAsClaimed(shoulder, hip)
            /\ (Present(shoulder) /\ Present(hip)) =>
                LET ws == Width(geo_points[1], geo_points[2])
                    wh == Width(geo_points[3], geo_points[4])
                IN  /\ Val(shoulder) \in FloatQuotients(RDiv(ws, wh))
                    /\ Val(hip) \in FloatQuotients(RDiv(wh, ws))
                    /\ ws = wh => Val(shoulder) = ROne /\ Val(hip) = ROne

\* shoulders 1/2 wide over hips 63/128 wide: both quotients are rounded and
\* the two ratios are not reciprocals
Witness_C28_RoundedQuotients ==
    /\ geo_pc = "ratio"
    /\ \A k \in 1..4 : IsSome(geo_points[k])
    /\ Width(geo_points[1], geo_points[2]) = Rat(1, 2)
    /\ Width(geo_points[3], geo_points[4]) = Rat(63, 128)
    /\ Present(geo_ratio)
    /\ Val(geo_ratio) # RDiv(Rat(1, 2), Rat(63, 128))
    /\ Val(_calculate_hip_width_ratio(TorsoSkeleton(geo_points), fp_ulp))
           # RDiv(ROne, Val(geo_ratio))

\* a Symmetry whose four fields are absent or inside the schema bounds
WithinSchemaBounds(sym) ==
    /\ \A f \in {"shoulder_height_diff", "hip_height_diff"} :
        Present(sym[f]) => RLe(RZero, Val(sym[f])) /\ RLe(Val(sym[f]), ROne)
    /\ \A f \in {"shoulder_width_ratio", "hip_width_ratio"} :
        Present(sym[f]) => RLe(RZero, Val(sym[f])) /\ RLe(Val(sym[f]), Rat(5, 1))

\* one of the two computed width ratios of the Skeleton exceeds 5
WidthRatioExceeds(landmarks, ulp) ==
    \E r \in {_calculate_shoulder_width_ratio(landmarks, ulp),
              _calculate_hip_width_ratio(landmarks, ulp)} :
        Present(r) /\ RGt(Val(r), Rat(5, 1))

\* a video whose Skeleton has a width ratio above 5 fails in the metrics step
MetricsStepRejects ==
    (pc = "metrics" /\ WidthRatioExceeds(Val(cur.landmarks), fp_ulp)) =>
        /\ pc' = "except"
        /\ fault' = "metrics_failed"
        /\ exc' = Some(PyException("ValidationError", <<"Symmetry">>))
        /\ cur' = cur
        /\ analyses' = analyses

\* C29: every Symmetry the engine returns has shoulder_height_diff and
\* hip_height_diff in [0,1] and shoulder_width_ratio and hip_width_ratio in
\* [0,5]; for a Skeleton whose computed width ratio exceeds 5 the engine
\* returns no Symmetry (the constructor raises), and inside a request that
\* video fails in the metrics step, no analysis of it is kept, and the
\* request ends with the 422 of a processing error and no response body.
Thm_C29_SymmetryWithinSchemaOrRejected ==
    /\ [](/\ eng_pc = "done" =>
              Present(eng_symmetry) /\ WithinSchemaBounds(Val(eng_symmetry))
          /\ (SymmetryDelivered /\ WidthRatioExceeds(Val(eng_landmarks), fp_ulp)) =>
              eng_pc = "raised" /\ eng_symmetry = None
          /\ Present(cur.symmetry) => WithinSchemaBounds(Val(cur.symmetry))
          /\ \A k \in 1..Len(analyses) : WithinSchemaBounds(analyses[k].symmetry)
          /\ fault = "metrics_failed" =>
              /\ cur.symmetry = None
              /\ Len(analyses) = idx - 1
              /\ IsNone(response)
              /\ pc = "done" => status = 422)
    /\ [][MetricsStepRejects]_vars

\* the engine raised on a Skeleton whose shoulders are more than five times
\* as wide as its hips
Witness_C29_EngineRejectsWideShoulders ==
    /\ eng_pc = "raised"
    /\ eng_symmetry = None
    /\ Present(_calculate_shoulder_width_ratio(Val(eng_landmarks), fp_ulp))
    /\ RGt(Val(_calculate_shoulder_width_ratio(Val(eng_landmarks), fp_ulp)), Rat(5, 1))

\* the request whose second video is the wide one ended with 422
Witness_C29_BatchEndsAsProcessingError ==
    /\ pc = "done"
    /\ fault = "metrics_failed"
    /\ status = 422
    /\ idx = 2
    /\ Len(analyses) = 1
    /\ WidthRatioExceeds(Val(cur.landmarks), fp_ulp)

\* the confidences the keypoints are re-labelled with, left side and the
\* rest: absent, below, at and above the gate's threshold
OtherConfidences ==
    {<<None, Some(Tenths(10))>>,
     <<Some(Tenths(1)), None>>,
     <<Some(ConfidenceThreshold), Some(Tenths(1))>>,
     <<Some(Tenths(10)), Some(Tenths(10))>>}

LeftSlots ==
    {"left_eye", "left_ear", "left_shoulder", "left_elbow", "left_wrist",
     "left_hip", "left_knee", "left_ankle"}

\* the Skeleton l with the same present slots and positions, the left-side
\* keypoints carrying confidence cl and the others cr
Relabelled(l, cl, cr) ==
    [s \in Slots |->
        IF IsNone(l[s]) THEN None
        ELSE Some(LandmarkPoint(Val(l[s]).x, Val(l[s]).y,
                                IF s \in LeftSlots THEN cl ELSE cr))]

\* the metrics that read the right shoulder are present although the gate
\* does not count it
UncountedShoulderContributes ==
    (/\ eng_pc = "done"
     /\ \A s \in TorsoSlots : IsSome(Val(eng_landmarks)[s])
     /\ ~PassesThreshold(Val(eng_landmarks)["right_shoulder"])) =>
        /\ Present(Val(eng_symmetry).shoulder_height_diff)
        /\ Val(eng_symmetry).shoulder_height_diff
               = geometry_calculate_symmetry(Val(eng_landmarks)["left_shoulder"],
                                             Val(eng_landmarks)["right_shoulder"])
        /\ Val(eng_symmetry).hip_width_ratio
               = calculate_width_ratio(Val(eng_landmarks)["left_hip"],
                                       Val(eng_landmarks)["right_hip"],
                                       Val(eng_landmarks)["left_shoulder"],
                                       Val(eng_landmarks)["right_shoulder"], fp_ulp)

\* C30: JointAngles, AlignmentVectors and Symmetry of a Skeleton are those
\* of every Skeleton with the same present slots and the same positions and
\* other confidences (absent, below, at or above the gate's threshold), and
\* a keypoint the gate does not count still enters the metrics that read it.
Thm_C30_MetricsIgnoreConfidence ==
    /\ \A c \in OtherConfidences :
        LET other == Relabelled(Val(eng_landmarks), c[1], c[2])
        IN  /\ eng_pc = "angles" =>
                eng_joint_angles = calculate_joint_angles(other, fp_ulp)
            /\ eng_pc = "vectors" =>
                eng_alignment_vectors = calculate_alignment_vectors(other)
            /\ eng_pc \in {"done", "raised"} =>
                eng_symmetry = calculate_symmetry(other, fp_ulp)
    /\ UncountedShoulderContributes

\* the right shoulder has confidence 0.4, which the gate does not count, and
\* the symmetry metrics that read it are present and differ from those of
\* the Skeleton without it
Witness_C30_UncountedShoulderInMetrics ==
    /\ eng_pc = "done"
    /\ IsSome(Val(eng_landmarks)["right_shoulder"])
    /\ ~PassesThreshold(Val(eng_landmarks)["right_shoulder"])
    /\ Present(eng_symmetry)
    /\ Present(Val(eng_symmetry).shoulder_height_diff)
    /\ Present(Val(eng_symmetry).shoulder_width_ratio)
    /\ Present(Val(eng_symmetry).hip_width_ratio)
    /\ eng_symmetry # calculate_symmetry(
           [Val(eng_landmarks) EXCEPT !["right_shoulder"] = None], fp_ulp)

====
